---- MODULE Spec2Model ----
(***************************************************************************)
(* Event Storming workshop server (src/eventstorming_mcp.py): the workshop *)
(* snapshot, the element and bounded-context mutations, pagination, the    *)
(* timeline query and the flow tracer.                                     *)
(***************************************************************************)
EXTENDS Integers, Sequences, FiniteSets, TLC

VARIABLES
    elements,          \* Workshop.elements, as stored by the last save_workshop
    bounded_contexts,  \* Workshop.bounded_contexts, as stored by the last save
    next_id,           \* how many ids generate_id has handed out
    result,            \* the response of the last tool call
    updated_at,        \* metadata.updated_at, as stored by the last save
    now,               \* the instant the clock shows
    writes,            \* save_workshop calls of the last request
    request,           \* the last request: the tool, the workshop id, the params
    \* visualize_flow, one call in progress
    flow_params,       \* VisualizeFlowInput of the call
    pc,                \* where the call stands
    element_count,     \* element_count[0]
    stack,             \* the trace_flow calls in progress, innermost last
    visited,           \* the visited set of the current top-level trace
    roots,             \* the roots the loop over roots has not started yet
    lines,             \* the output lines appended so far
    visits,            \* history: every visited.add, with its root and depth
    \* paginate_list, the calls of one client reading a list page by page
    items,             \* the list
    page_size,         \* the page size of the calls
    page_out,          \* what the last call returned
    pages_read,        \* how many pages the client has read in order
    collected,         \* the items of the pages read in order, concatenated
    query,             \* the get_timeline request whose list is in items
    \* processes that share the storage directory
    callers,           \* per process: where its request stands, what it loaded
    file,              \* the workshop file as a reader finds it: Whole (what
                       \* the last write put there), Truncated (opened for
                       \* writing, not written yet) or Mixed(n) (n bytes, the
                       \* first ones of one write and the last ones of another)
    \* the workshop's metadata.created_at, and the other workshop files
    created_at,        \* metadata.created_at, as create_workshop set it
    imports            \* the workshops import_workshop has saved, in order

wvars == <<elements, bounded_contexts, next_id, result>>
svars == <<updated_at, now, writes, request>>
fvars == <<flow_params, pc, element_count, stack, visited, roots, lines,
           visits>>
pvars == <<items, page_size, page_out, pages_read, collected, query>>
cvars == <<callers, file>>
ivars == <<created_at, imports>>
vars == <<wvars, svars, fvars, pvars, cvars, ivars>>

(***************************************************************************)
(* Bounds and input domains                                                *)
(***************************************************************************)
\* elements add_element creates in one behaviour
MaxElems == 2
\* bounded contexts create_bounded_context creates in one behaviour
MaxCtxs == 2

\* Optional[str] that was not supplied
None == "None"
\* the empty string: a supplied value that Python treats as false
EmptyStr == ""
\* the sentinel of update_element that clears the context assignment
NullSentinel == "null"
\* an id a caller supplies that generate_id never produced
Ghost == "ghost"

\* uuid4 values in the order generate_id returns them; never repeated
IdPool == <<"i1", "i2", "i3", "i4", "i5", "i6", "i7", "i8">>
generate_id(n) == IdPool[n + 1]
IssuedIds == {IdPool[i] : i \in 1..next_id}

\* ElementType: the 8 variants, in declaration order
ElementType == <<"event", "command", "actor", "aggregate", "policy",
                 "read_model", "external_system", "hotspot">>
\* the variants the callers of the model use
TypeInputs == {"event", "command"}
\* positions a caller supplies; <<>> is an omitted Optional[int]
PositionInputs == {<<>>, <<0>>}
\* the digits of a timestamp field, in order
Digits == <<"0", "1">>

\* an instant of the clock: a second and its microseconds
Instant(s, us) == [s |-> s, us |-> us]
Epoch == Instant(0, 0)

\* get_timestamp at instant t: datetime.utcnow().isoformat() + "Z", as the
\* sequence of its characters from the seconds digit on; isoformat leaves
\* the fraction out when the microseconds are 0
get_timestamp(t) ==
    IF t.us = 0 THEN <<Digits[t.s + 1], "Z">>
    ELSE <<Digits[t.s + 1], ".", Digits[t.us + 1], "Z">>

\* the timestamp a request gets: get_timestamp() at the instant of the clock
Timestamps == {get_timestamp(now)}

\* Python truthiness of an Optional[str]
Truthy(s) == s # None /\ s # EmptyStr

(***************************************************************************)
(* Sequence helpers (Python list operations)                               *)
(***************************************************************************)
Range(s) == {s[i] : i \in 1..Len(s)}

\* x in s
In(x, s) == \E i \in 1..Len(s) : s[i] = x

\* [y for y in s if y != x]
Without(s, x) == SelectSeq(s, LAMBDA y : y # x)

\* index of the first item of s equal to x, 0 when there is none
IndexOf(s, x) ==
    IF \E i \in 1..Len(s) : s[i] = x
    THEN CHOOSE i \in 1..Len(s) : s[i] = x /\ \A j \in 1..(i - 1) : s[j] # x
    ELSE 0

\* index of the first record of s whose id is x, 0 when there is none:
\* next((e for e in s if e.id == x), None)
IndexOfId(s, x) == IndexOf([i \in 1..Len(s) |-> s[i].id], x)

\* s.remove(x) when x is in s: drops the first occurrence only
RemoveFirst(s, x) ==
    LET i == IndexOf(s, x)
    IN  IF i = 0 THEN s
        ELSE [k \in 1..(Len(s) - 1) |-> IF k < i THEN s[k] ELSE s[k + 1]]

\* all sequences over S of length at most n
SeqUpTo(S, n) == UNION {[1..k -> S] : k \in 0..n}

(***************************************************************************)
(* The workshop snapshot and its mutations                                 *)
(***************************************************************************)
\* Workshop: the two collections of one snapshot
Workshop(els, ctxs) == [elements |-> els, bounded_contexts |-> ctxs]

\* EventStormingElement
EventStormingElement(id, type, name, pos, notes, ts, by, trig, trig_by, ctx) ==
    [id |-> id, type |-> type, name |-> name, position |-> pos,
     notes |-> notes, created_at |-> ts, updated_at |-> ts,
     created_by |-> by, triggers |-> trig, triggered_by |-> trig_by,
     bounded_context_id |-> ctx]

\* BoundedContext, as create_bounded_context builds it
BoundedContext(id, name, description, color) ==
    [id |-> id, name |-> name, description |-> description,
     element_ids |-> <<>>, color |-> color]

\* the response of a tool call, as far as the model reads it
Response(op, ok, id, fields, assigned, not_found) ==
    [op |-> op, ok |-> ok, id |-> id, updated_fields |-> fields,
     assigned |-> assigned, not_found |-> not_found]

\* x or ""
OrEmpty(s) == IF Truthy(s) THEN s ELSE EmptyStr

\* an automatic position that counts the elements of the other types
AutoPositionOthers(els, type) == Len(SelectSeq(els, LAMBDA e : e.type # type))

\* an automatic position that counts the elements of every type
AutoPositionAll(els, type) == Len(els)

\* add_element: position = len([e for e in elements if e.type == type])
AutoPosition(els, type) == Len(SelectSeq(els, LAMBDA e : e.type = type))

\* add_element, the context part: the first context with that id gets the
\* new id appended unless it holds it already
AddToContext(ctxs, ctx_id, element_id) ==
    LET i == IndexOfId(ctxs, ctx_id)
    IN  IF ~Truthy(ctx_id) \/ i = 0 \/ In(element_id, ctxs[i].element_ids)
        THEN ctxs
        ELSE [ctxs EXCEPT ![i].element_ids = Append(@, element_id)]

\* an add_element that stores no context id that names no context
AddElementOpValidated(w, element_id, p, ts) ==
    LET position == IF p.position = <<>>
                    THEN AutoPosition(w.elements, p.type)
                    ELSE p.position[1]
        known == \E k \in 1..Len(w.bounded_contexts) :
                    w.bounded_contexts[k].id = p.bounded_context_id
        element == EventStormingElement(element_id, p.type, p.name, position,
                       OrEmpty(p.notes), ts, OrEmpty(p.created_by),
                       p.triggers, p.triggered_by,
                       IF known THEN p.bounded_context_id ELSE None)
    IN  Workshop(Append(w.elements, element),
                 AddToContext(w.bounded_contexts, p.bounded_context_id,
                              element_id))

\* add_element: the workshop after the call
AddElementOp(w, element_id, p, ts) ==
    LET position == IF p.position = <<>>
                    THEN AutoPosition(w.elements, p.type)
                    ELSE p.position[1]
        element == EventStormingElement(element_id, p.type, p.name, position,
                       OrEmpty(p.notes), ts, OrEmpty(p.created_by),
                       p.triggers, p.triggered_by, p.bounded_context_id)
    IN  Workshop(Append(w.elements, element),
                 AddToContext(w.bounded_contexts, p.bounded_context_id,
                              element_id))

\* a context change that appends to the new context and leaves the old one
\* as it is
MoveContextKeepsOld(ctxs, element_id, old_context, new_context) ==
    [k \in 1..Len(ctxs) |->
        LET c == ctxs[k]
        IN  [c EXCEPT !.element_ids =
                IF c.id = new_context /\ ~In(element_id, @)
                THEN Append(@, element_id) ELSE @]]

\* update_element, the loop over the contexts after a context change
MoveContext(ctxs, element_id, old_context, new_context) ==
    [k \in 1..Len(ctxs) |->
        LET c == ctxs[k]
            removed == IF c.id = old_context /\ In(element_id, c.element_ids)
                       THEN RemoveFirst(c.element_ids, element_id)
                       ELSE c.element_ids
            added == IF c.id = new_context /\ ~In(element_id, removed)
                     THEN Append(removed, element_id)
                     ELSE removed
        IN  [c EXCEPT !.element_ids = added]]

\* a field list that tests the position for truth, not for presence
UpdatedFieldsTruthy(p) ==
    (IF p.name # None THEN <<"name">> ELSE <<>>)
    \o (IF p.position # <<>> /\ p.position # <<0>> THEN <<"position">> ELSE <<>>)
    \o (IF p.notes # None THEN <<"notes">> ELSE <<>>)
    \o (IF p.triggers # <<>> THEN <<"triggers">> ELSE <<>>)
    \o (IF p.triggered_by # <<>> THEN <<"triggered_by">> ELSE <<>>)
    \o (IF p.bounded_context_id # None THEN <<"bounded_context_id">> ELSE <<>>)

\* update_element: the fields the response lists, in the order of the code
UpdatedFields(p) ==
    (IF p.name # None THEN <<"name">> ELSE <<>>)
    \o (IF p.position # <<>> THEN <<"position">> ELSE <<>>)
    \o (IF p.notes # None THEN <<"notes">> ELSE <<>>)
    \o (IF p.triggers # <<>> THEN <<"triggers">> ELSE <<>>)
    \o (IF p.triggered_by # <<>> THEN <<"triggered_by">> ELSE <<>>)
    \o (IF p.bounded_context_id # None THEN <<"bounded_context_id">> ELSE <<>>)

\* an update_element that enters the element in the triggered_by of the
\* elements its new triggers name
UpdateElementReconciles(w, p, ts) ==
    LET i == IndexOfId(w.elements, p.element_id)
        old == w.elements[i]
        element ==
            [old EXCEPT
                !.name = IF p.name # None THEN p.name ELSE @,
                !.position = IF p.position # <<>> THEN p.position[1] ELSE @,
                !.notes = IF p.notes # None THEN p.notes ELSE @,
                !.triggers = IF p.triggers # <<>> THEN p.triggers[1] ELSE @,
                !.triggered_by = IF p.triggered_by # <<>>
                                 THEN p.triggered_by[1] ELSE @,
                !.updated_at = ts]
    IN  Workshop([k \in 1..Len(w.elements) |->
                     IF k = i THEN element
                     ELSE LET e == w.elements[k]
                          IN  IF /\ In(e.id, element.triggers)
                                 /\ ~In(old.id, e.triggered_by)
                              THEN [e EXCEPT !.triggered_by = Append(@, old.id)]
                              ELSE e],
                 w.bounded_contexts)

\* update_element on an element that exists: the workshop after the call.
\* The optional position and lists are <<>> when omitted, <<value>> otherwise.
UpdateElementOp(w, p, ts) ==
    LET i == IndexOfId(w.elements, p.element_id)
        old == w.elements[i]
        old_context == old.bounded_context_id
        new_context == IF p.bounded_context_id # NullSentinel
                       THEN p.bounded_context_id ELSE None
        element ==
            [old EXCEPT
                !.name = IF p.name # None THEN p.name ELSE @,
                !.position = IF p.position # <<>> THEN p.position[1] ELSE @,
                !.notes = IF p.notes # None THEN p.notes ELSE @,
                !.triggers = IF p.triggers # <<>> THEN p.triggers[1] ELSE @,
                !.triggered_by = IF p.triggered_by # <<>>
                                 THEN p.triggered_by[1] ELSE @,
                !.bounded_context_id = IF p.bounded_context_id # None
                                       THEN new_context ELSE @,
                !.updated_at = ts]
    IN  Workshop([w.elements EXCEPT ![i] = element],
                 IF p.bounded_context_id # None
                 THEN MoveContext(w.bounded_contexts, old.id, old_context,
                                  new_context)
                 ELSE w.bounded_contexts)

\* delete_element that forgets the pass over the bounded contexts
DeleteElementKeepsContexts(w, element_id) ==
    LET kept == SelectSeq(w.elements, LAMBDA e : e.id # element_id)
    IN  Workshop(
            [k \in 1..Len(kept) |->
                [kept[k] EXCEPT
                    !.triggers = Without(@, element_id),
                    !.triggered_by = Without(@, element_id)]],
            w.bounded_contexts)

\* delete_element on an element that exists: the workshop after the call
DeleteElementOp(w, element_id) ==
    LET kept == SelectSeq(w.elements, LAMBDA e : e.id # element_id)
    IN  Workshop(
            [k \in 1..Len(kept) |->
                [kept[k] EXCEPT
                    !.triggers = Without(@, element_id),
                    !.triggered_by = Without(@, element_id)]],
            [k \in 1..Len(w.bounded_contexts) |->
                [w.bounded_contexts[k] EXCEPT
                    !.element_ids = Without(@, element_id)]])

\* a create_bounded_context that replaces the contexts of the same name
CreateBoundedContextReplaces(w, context_id, p) ==
    Workshop(w.elements,
             Append(SelectSeq(w.bounded_contexts, LAMBDA c : c.name # p.name),
                    BoundedContext(context_id, p.name,
                                   OrEmpty(p.description), p.color)))

\* create_bounded_context: the workshop after the call
CreateBoundedContextOp(w, context_id, p) ==
    Workshop(w.elements,
             Append(w.bounded_contexts,
                    BoundedContext(context_id, p.name,
                                   OrEmpty(p.description), p.color)))

\* a loop body that enters the id in the context whether or not it names
\* an element
AssignOneUnchecked(w, ci, context_id, element_id) ==
    LET i == IndexOfId(w.elements, element_id)
    IN  Workshop(
            IF i = 0 THEN w.elements
            ELSE [w.elements EXCEPT ![i].bounded_context_id = context_id],
            IF In(element_id, w.bounded_contexts[ci].element_ids)
            THEN w.bounded_contexts
            ELSE [w.bounded_contexts EXCEPT
                     ![ci].element_ids = Append(@, element_id)])

\* a loop body that appends without looking whether the id is there
AssignOneAppends(w, ci, context_id, element_id) ==
    LET i == IndexOfId(w.elements, element_id)
    IN  IF i = 0 THEN w
        ELSE Workshop(
                [w.elements EXCEPT ![i].bounded_context_id = context_id],
                [w.bounded_contexts EXCEPT
                    ![ci].element_ids = Append(@, element_id)])

\* assign_to_context, one pass of the loop body for element_id
AssignOne(w, ci, context_id, element_id) ==
    LET i == IndexOfId(w.elements, element_id)
    IN  IF i = 0 THEN w
        ELSE Workshop(
                [w.elements EXCEPT ![i].bounded_context_id = context_id],
                IF In(element_id, w.bounded_contexts[ci].element_ids)
                THEN w.bounded_contexts
                ELSE [w.bounded_contexts EXCEPT
                         ![ci].element_ids = Append(@, element_id)])

\* assign_to_context on a context that exists: the loop over element_ids
RECURSIVE AssignLoop(_, _, _, _)
AssignLoop(w, ci, context_id, ids) ==
    IF ids = <<>> THEN w
    ELSE AssignLoop(AssignOne(w, ci, context_id, Head(ids)), ci, context_id,
                    Tail(ids))

AssignToContextOp(w, context_id, ids) ==
    AssignLoop(w, IndexOfId(w.bounded_contexts, context_id), context_id, ids)

\* assign_to_context: the ids of the request that name an element / no element
Assigned(w, ids) ==
    SelectSeq(ids, LAMBDA x : \E i \in 1..Len(w.elements) : w.elements[i].id = x)
NotFound(w, ids) ==
    SelectSeq(ids, LAMBDA x : \A i \in 1..Len(w.elements) : w.elements[i].id # x)

(***************************************************************************)
(* The tool calls: load_workshop, one operation, save_workshop             *)
(***************************************************************************)
\* load_workshop: the stored snapshot
Stored == Workshop(elements, bounded_contexts)

\* the id of the one workshop of the model, and the workshop ids a caller
\* names
WorkshopId == "w"
WorkshopInputs == {WorkshopId, Ghost}

\* updated_at while no file of the workshop is stored
NoFile == <<>>

\* get_workshop_path(workshop_id).exists(): the workshop has been saved
Exists(workshop_id) == workshop_id = WorkshopId /\ updated_at # NoFile

\* a request that saves the snapshot a second time
SaveTwice(w) ==
    /\ elements' = w.elements
    /\ bounded_contexts' = w.bounded_contexts
    /\ updated_at' = get_timestamp(now)
    /\ writes' = 2

\* save_workshop: metadata.updated_at is set and the snapshot replaces the
\* stored one
Save(w) ==
    /\ elements' = w.elements
    /\ bounded_contexts' = w.bounded_contexts
    /\ updated_at' = get_timestamp(now)
    /\ writes' = 1

\* a request that saves the snapshot it loaded before it returns
SaveLoaded ==
    /\ writes' = 1
    /\ updated_at' = get_timestamp(now)
    /\ UNCHANGED <<elements, bounded_contexts>>

\* a request that returns without a save_workshop call
NoSave ==
    /\ writes' = 0
    /\ UNCHANGED <<elements, bounded_contexts, updated_at>>

\* a request as a handler receives it
Request(op, workshop_id, params) ==
    [op |-> op, workshop_id |-> workshop_id, params |-> params]

\* {"error": "Workshop not found: ..."}
WorkshopError(op, workshop_id) ==
    [op |-> op, ok |-> FALSE, id |-> workshop_id, error |-> "Workshop not found"]

\* load_workshop raises FileNotFoundError: the handler returns the error
WorkshopNotFound(op, workshop_id) ==
    /\ result' = WorkshopError(op, workshop_id)
    /\ NoSave
    /\ UNCHANGED next_id

ElementIds == {elements[i].id : i \in 1..Len(elements)}
ContextIds == {bounded_contexts[i].id : i \in 1..Len(bounded_contexts)}

\* lists a caller supplies for triggers and triggered_by: empty, or one
\* element
LinkInputs == {<<>>} \cup {<<x>> : x \in ElementIds}
\* lists a caller supplies to assign_to_context: one id, of an element or not
AssignInputs == {<<x>> : x \in ElementIds \cup {Ghost}}
\* element ids a caller names as the target of a call
TargetInputs == ElementIds \cup {Ghost}
\* context ids a caller supplies for an element: omitted, dangling, existing
ContextInputs == ContextIds \cup {None, Ghost}

\* AddElementInput, over the given values of its fields
AddElementInput(types, positions, trigs, trigbys, ctxs) ==
    [type : types, name : {"n"}, position : positions,
     notes : {EmptyStr}, created_by : {EmptyStr},
     triggers : trigs, triggered_by : trigbys, bounded_context_id : ctxs]

\* UpdateElementInput, over the given values of its fields; an omitted
\* Optional[int] or Optional[List] is <<>>, a supplied one <<value>>
Opt(S) == {<<>>} \cup {<<x>> : x \in S}
UpdateElementInput(positions, trigs, trigbys, ctxs) ==
    [element_id : TargetInputs, name : {None}, position : positions,
     notes : {None}, triggers : trigs, triggered_by : trigbys,
     bounded_context_id : ctxs]

CreateBoundedContextInput ==
    [name : {"ctx"}, description : {EmptyStr}, color : {None}]

\* AssignToContextInput, over the given context ids and element id lists
AssignToContextInput(ctxs, lists) == [context_id : ctxs, element_ids : lists]

add_element(workshops, inputs) ==
    /\ UNCHANGED ivars
    /\ UNCHANGED cvars
    /\ UNCHANGED <<fvars, pvars, now>>
    /\ \E workshop_id \in workshops, p \in inputs, ts \in Timestamps :
        /\ request' = Request("add_element", workshop_id, p)
        /\ IF ~Exists(workshop_id)
           THEN WorkshopNotFound("add_element", workshop_id)
           ELSE LET element_id == generate_id(next_id)
                IN  /\ Save(AddElementOp(Stored, element_id, p, ts))
                    /\ next_id' = next_id + 1
                    /\ result' = Response("add_element", TRUE, element_id, <<>>,
                                          <<>>, <<>>)

update_element(workshops, inputs) ==
    /\ UNCHANGED ivars
    /\ UNCHANGED cvars
    /\ UNCHANGED <<fvars, pvars, now>>
    /\ \E workshop_id \in workshops, p \in inputs, ts \in Timestamps :
        /\ request' = Request("update_element", workshop_id, p)
        /\ IF ~Exists(workshop_id)
           THEN WorkshopNotFound("update_element", workshop_id)
           ELSE IF p.element_id \in ElementIds
           THEN /\ Save(UpdateElementOp(Stored, p, ts))
                /\ result' = Response("update_element", TRUE, p.element_id,
                                      UpdatedFields(p), <<>>, <<>>)
                /\ UNCHANGED next_id
           ELSE /\ result' = Response("update_element", FALSE, p.element_id,
                                      <<>>, <<>>, <<>>)
                /\ NoSave
                /\ UNCHANGED next_id

delete_element(workshops, inputs) ==
    /\ UNCHANGED ivars
    /\ UNCHANGED cvars
    /\ UNCHANGED <<fvars, pvars, now>>
    /\ \E workshop_id \in workshops, element_id \in inputs :
        /\ request' = Request("delete_element", workshop_id, element_id)
        /\ IF ~Exists(workshop_id)
           THEN WorkshopNotFound("delete_element", workshop_id)
           ELSE IF element_id \in ElementIds
           THEN /\ Save(DeleteElementOp(Stored, element_id))
                /\ result' = Response("delete_element", TRUE, element_id, <<>>,
                                      <<>>, <<>>)
                /\ UNCHANGED next_id
           ELSE /\ result' = Response("delete_element", FALSE, element_id,
                                      <<>>, <<>>, <<>>)
                /\ NoSave
                /\ UNCHANGED next_id

create_bounded_context(workshops, inputs) ==
    /\ UNCHANGED ivars
    /\ UNCHANGED cvars
    /\ UNCHANGED <<fvars, pvars, now>>
    /\ \E workshop_id \in workshops, p \in inputs :
        /\ request' = Request("create_bounded_context", workshop_id, p)
        /\ IF ~Exists(workshop_id)
           THEN WorkshopNotFound("create_bounded_context", workshop_id)
           ELSE LET context_id == generate_id(next_id)
                IN  /\ Save(CreateBoundedContextOp(Stored, context_id, p))
                    /\ next_id' = next_id + 1
                    /\ result' = Response("create_bounded_context", TRUE,
                                          context_id, <<>>, <<>>, <<>>)

assign_to_context(workshops, inputs) ==
    /\ UNCHANGED ivars
    /\ UNCHANGED cvars
    /\ UNCHANGED <<fvars, pvars, now>>
    /\ \E workshop_id \in workshops, p \in inputs :
        /\ request' = Request("assign_to_context", workshop_id, p)
        /\ IF ~Exists(workshop_id)
           THEN WorkshopNotFound("assign_to_context", workshop_id)
           ELSE IF p.context_id \in ContextIds
           THEN /\ Save(AssignToContextOp(Stored, p.context_id, p.element_ids))
                /\ result' = Response("assign_to_context", TRUE, p.context_id,
                                      <<>>, Assigned(Stored, p.element_ids),
                                      NotFound(Stored, p.element_ids))
                /\ UNCHANGED next_id
           ELSE /\ result' = Response("assign_to_context", FALSE, p.context_id,
                                      <<>>, <<>>, <<>>)
                /\ NoSave
                /\ UNCHANGED next_id

\* create_workshop: a workshop without elements and contexts is saved; the
\* model has one workshop
create_workshop ==
    /\ created_at' = get_timestamp(now) /\ UNCHANGED imports
    /\ UNCHANGED cvars
    /\ ~Exists(WorkshopId)
    /\ request' = Request("create_workshop", None, <<>>)
    /\ Save(Workshop(<<>>, <<>>))
    /\ result' = Response("create_workshop", TRUE, None, <<>>, <<>>, <<>>)
    /\ UNCHANGED <<next_id, now, fvars, pvars>>

\* elements created so far, contexts created so far
ElementsIssued == next_id - Len(bounded_contexts)
ContextsIssued == Len(bounded_contexts)

\* the processes that share the storage directory with this one
Callers == {"c1", "c2"}

\* none of them has a request in progress
Whole == <<"whole">>
Truncated == <<"truncated">>
Mixed(n) == <<"mixed", n>>
NoCallers ==
    /\ callers = [c \in Callers |-> [pc |-> "idle"]]
    /\ file = Whole

\* no visualize_flow call in progress
FlowIdle ==
    /\ flow_params = <<>>
    /\ pc = "idle"
    /\ element_count = 0
    /\ stack = <<>>
    /\ visited = {}
    /\ roots = <<>>
    /\ lines = <<>>
    /\ visits = <<>>

\* the store right after create_workshop has saved
StoreIdle ==
    /\ created_at = get_timestamp(Epoch)
    /\ imports = <<>>
    /\ updated_at = get_timestamp(Epoch)
    /\ now = Epoch
    /\ writes = 1
    /\ request = <<>>

\* no list being read
PageIdle ==
    /\ items = <<>>
    /\ page_size = 1
    /\ page_out = <<>>
    /\ pages_read = 0
    /\ collected = <<>>
    /\ query = <<>>

\* create_workshop: empty collections
Init ==
    /\ NoCallers
    /\ elements = <<>>
    /\ bounded_contexts = <<>>
    /\ next_id = 0
    /\ result = Response("create_workshop", TRUE, None, <<>>, <<>>, <<>>)
    /\ StoreIdle
    /\ FlowIdle
    /\ PageIdle

\* Spec: elements of one type at one position; callers link them, move them
\* between contexts and delete them
Next ==
    \/ /\ ElementsIssued < MaxElems
       /\ add_element({WorkshopId},
                      AddElementInput({"event"}, {<<0>>}, LinkInputs, LinkInputs,
                                      ContextInputs))
    \/ update_element({WorkshopId},
                      {p \in UpdateElementInput({<<>>}, Opt(LinkInputs), {<<>>},
                                         ContextInputs \cup {NullSentinel}) :
                          p.triggers = <<>> \/ p.bounded_context_id = None})
    \/ delete_element({WorkshopId}, TargetInputs)
    \/ /\ ContextsIssued < MaxCtxs
       /\ create_bounded_context({WorkshopId}, CreateBoundedContextInput)
    \/ assign_to_context({WorkshopId},
                         AssignToContextInput(ContextIds \cup {Ghost}, AssignInputs))

Spec == Init /\ [][Next]_vars

\* MoveSpec: elements added in a context, in none or in one that does not
\* exist; callers change their context, to the one they have or to another
\* one, and assign them to contexts
MoveNext ==
    \/ /\ ElementsIssued < MaxElems
       /\ add_element({WorkshopId},
                      AddElementInput({"event"}, {<<0>>}, {<<>>}, {<<>>},
                                      ContextInputs))
    \/ update_element({WorkshopId},
                      UpdateElementInput({<<>>}, {<<>>}, {<<>>},
                                         ContextInputs \cup {NullSentinel}))
    \/ /\ ContextsIssued < MaxCtxs
       /\ create_bounded_context({WorkshopId}, CreateBoundedContextInput)
    \/ assign_to_context({WorkshopId},
                         AssignToContextInput(ContextIds, AssignInputs))

MoveSpec == Init /\ [][MoveNext]_vars

\* RepeatSpec: the requests of MoveSpec, and elements deleted
RepeatNext ==
    \/ MoveNext
    \/ delete_element({WorkshopId}, TargetInputs)

RepeatSpec == Init /\ [][RepeatNext]_vars

\* PatchSpec: one element in a context; callers change its position, its
\* triggers and its context, to the value it has or to another one
PatchNext ==
    \/ /\ ElementsIssued < MaxElems - 1
       /\ add_element({WorkshopId},
                      AddElementInput({"event"}, {<<0>>}, {<<>>}, {<<>>},
                                      ContextInputs))
    \/ update_element({WorkshopId},
                      UpdateElementInput(Opt({0, 1}), Opt({<<>>, <<Ghost>>}),
                                         {<<>>},
                                         ContextInputs \cup {NullSentinel}))
    \/ /\ ContextsIssued < MaxCtxs - 1
       /\ create_bounded_context({WorkshopId}, CreateBoundedContextInput)

PatchSpec == Init /\ [][PatchNext]_vars

\* PositionSpec: elements of two types, with and without a position, added
\* and deleted
MaxAdds == 4

PositionNext ==
    \/ /\ ElementsIssued < MaxAdds
       /\ add_element({WorkshopId},
                      AddElementInput(TypeInputs, PositionInputs, {<<>>}, {<<>>},
                                      {None}))
    \/ delete_element({WorkshopId}, ElementIds)

PositionSpec == Init /\ [][PositionNext]_vars

\* LaneSpec: elements of two types are added without a position, and deleted
LaneNext ==
    \/ /\ ElementsIssued < MaxAdds
       /\ add_element({WorkshopId},
                      AddElementInput(TypeInputs, {<<>>}, {<<>>}, {<<>>},
                                      {None}))
    \/ delete_element({WorkshopId}, ElementIds)

LaneSpec == Init /\ [][LaneNext]_vars

\* AssignSpec: elements and contexts are created, and lists of one to
\* MaxAssign ids, of elements or not, with repetitions, are assigned
MaxAssign == 3

AssignNext ==
    \/ /\ ElementsIssued < MaxElems
       /\ add_element({WorkshopId},
                      AddElementInput({"event"}, {<<0>>}, {<<>>}, {<<>>},
                                      ContextIds \cup {None}))
    \/ /\ ContextsIssued < MaxCtxs
       /\ create_bounded_context({WorkshopId}, CreateBoundedContextInput)
    \/ assign_to_context({WorkshopId},
            AssignToContextInput(ContextIds \cup {Ghost},
                                 SeqUpTo(ElementIds \cup {Ghost}, MaxAssign)
                                     \ {<<>>}))

AssignSpec == Init /\ [][AssignNext]_vars

(***************************************************************************)
(* visualize_flow: the flow tracer                                         *)
(***************************************************************************)
\* VisualizeFlowInput.max_depth and max_elements: the defaults
DefaultMaxDepth == 5
DefaultMaxElements == 100
\* the largest max_depth / max_elements a caller of the model supplies besides
\* the defaults
MaxDepthInput == 2
MaxElementsInput == 2

\* an output line: what it shows, the element it names, its indentation
Line(kind, id, indent) == [kind |-> kind, id |-> id, indent |-> indent]

\* a trace_flow call: i = 0 before its body ran, afterwards the index of the
\* trigger the for loop takes next
Frame(id, depth, indent) == [element_id |-> id, depth |-> depth, indent |-> indent, i |-> 0]

\* a limit test that answers one element early
LimitNear(count, p) == count + 1 >= p.max_elements

\* the limit test off by one: > where the code has >=
LimitExceeded(count, p) == count > p.max_elements

\* element_count[0] >= params.max_elements
LimitReached(count, p) == count >= p.max_elements

\* a recursive call that passes its own depth on
ChildDepthSame(depth) == depth

\* depth + 1 of the recursive call
ChildDepth(depth) == depth + 1

\* a call that forgets visited.add
VisitedUnchanged(seen, id) == seen

\* visited.add(element_id)
VisitedAfter(seen, id) == seen \cup {id}

\* one visited set handed from root to root
KeepVisited(seen) == seen

\* set(): the visited set a top-level trace starts with
FreshVisited(seen) == {}

\* a trace_flow that returns one hop early
EnterOutcomeShallow(els, f, seen, count, p) ==
    IF f.depth + 1 >= p.max_depth \/ f.element_id \in seen THEN "return"
    ELSE IF LimitReached(count, p) THEN "limit"
    ELSE IF IndexOfId(els, f.element_id) = 0 THEN "missing"
    ELSE "emit"

\* trace_flow without the test for a missing element: element.type raises
EnterOutcomeNoMissingTest(els, f, seen, count, p) ==
    IF f.depth >= p.max_depth \/ f.element_id \in seen THEN "return"
    ELSE IF LimitReached(count, p) THEN "limit"
    ELSE IF IndexOfId(els, f.element_id) = 0 THEN "raise"
    ELSE "emit"

\* what a trace_flow call does on entry: "return" (too deep or seen), "limit"
\* (the marker alone), "missing" (counted, no element: returns nothing),
\* "emit" (counted and shown); "raise" would be an exception leaving the call
EnterOutcome(els, f, seen, count, p) ==
    IF f.depth >= p.max_depth \/ f.element_id \in seen THEN "return"
    ELSE IF LimitReached(count, p) THEN "limit"
    ELSE IF IndexOfId(els, f.element_id) = 0 THEN "missing"
    ELSE "emit"

\* roots = [e for e in workshop.elements if not e.triggered_by]
Roots(els) ==
    LET rs == SelectSeq(els, LAMBDA e : e.triggered_by = <<>>)
    IN  [k \in 1..Len(rs) |-> rs[k].id]

\* notes of 100 and of 99 characters
LongNotes == "xxxxxxxxxxxxxxxxxxxxxxxxxxxxxxxxxxxxxxxxxxxxxxxxxxxxxxxxxxxxxxxxxxxxxxxxxxxxxxxxxxxxxxxxxxxxxxxxxxxx"
AlmostLongNotes == "xxxxxxxxxxxxxxxxxxxxxxxxxxxxxxxxxxxxxxxxxxxxxxxxxxxxxxxxxxxxxxxxxxxxxxxxxxxxxxxxxxxxxxxxxxxxxxxxxxx"

\* the characters of the strings names, notes and queries are drawn from
Chars(s) ==
    CASE s = EmptyStr -> <<>>
      [] s = "n" -> <<"n">>
      [] s = "N" -> <<"N">>
      [] s = "nn" -> <<"n", "n">>
      [] s = "x" -> <<"x">>
      [] s = LongNotes -> [i \in 1..100 |-> "x"]
      [] s = AlmostLongNotes -> [i \in 1..99 |-> "x"]

\* the length under which trace_flow shows the notes of an element
ShortNotesLimit == 100

\* the lines of an element: its own, and its notes when it has some of
\* fewer than 100 characters
ElementLines(e, indent) ==
    <<Line("element", e.id, indent)>>
    \o (IF Truthy(e.notes) /\ Len(Chars(e.notes)) < ShortNotesLimit
        THEN <<Line("notes", e.id, indent)>> ELSE <<>>)

\* if params.start_element_id: a start id was given
Directed == Truthy(flow_params.start_element_id)

\* the root of the top-level trace in progress
CurrentRoot == stack[1].element_id

\* a trace_flow call returns to its caller; the outermost one returns to
\* visualize_flow, which in the all-roots mode appends a blank line
Return(out) ==
    /\ stack' = SubSeq(stack, 1, Len(stack) - 1)
    /\ IF Len(stack) > 1 THEN lines' = out /\ pc' = "trace"
       ELSE IF Directed THEN lines' = out /\ pc' = "finish"
       ELSE lines' = Append(out, Line("blank", None, 0)) /\ pc' = "roots"

\* visualize_flow up to the first trace_flow call
flow_start ==
    /\ UNCHANGED ivars
    /\ UNCHANGED cvars
    /\ pc = "start"
    /\ writes' = 0
    /\ request' = Request("visualize_flow", flow_params.workshop_id, flow_params)
    /\ UNCHANGED <<wvars, updated_at, now, pvars, flow_params, element_count,
                   visits>>
    /\ LET title == <<Line("title", None, 0), Line("blank", None, 0)>>
           start == IndexOfId(elements, flow_params.start_element_id)
       IN  IF ~Exists(flow_params.workshop_id)
           THEN /\ pc' = "error"
                /\ UNCHANGED <<stack, visited, roots, lines>>
           ELSE IF Directed
           THEN IF start = 0
                THEN /\ pc' = "error"
                     /\ UNCHANGED <<stack, visited, roots, lines>>
                ELSE /\ pc' = "trace"
                     /\ lines' = title \o <<Line("header", elements[start].id, 0),
                                            Line("blank", None, 0)>>
                     /\ stack' = <<Frame(flow_params.start_element_id, 0, 0)>>
                     /\ visited' = FreshVisited(visited)
                     /\ UNCHANGED roots
           ELSE IF Roots(elements) = <<>>
                THEN /\ pc' = "finish"
                     /\ lines' = title \o <<Line("no_roots", None, 0),
                                            Line("no_roots_hint", None, 0)>>
                     /\ UNCHANGED <<stack, visited, roots>>
                ELSE /\ pc' = "roots"
                     /\ lines' = title \o <<Line("found_roots", None, 0),
                                            Line("blank", None, 0)>>
                     /\ roots' = Roots(elements)
                     /\ UNCHANGED <<stack, visited>>

\* for root in roots: the limit check, then the header and the trace call
flow_next_root ==
    /\ UNCHANGED ivars
    /\ UNCHANGED cvars
    /\ pc = "roots"
    /\ UNCHANGED <<wvars, svars, pvars, flow_params, element_count, visits>>
    /\ IF roots = <<>>
       THEN pc' = "finish" /\ UNCHANGED <<stack, visited, roots, lines>>
       ELSE IF LimitReached(element_count, flow_params)
       THEN /\ pc' = "finish"
            /\ lines' = Append(lines, Line("limit", None, 0))
            /\ UNCHANGED <<stack, visited, roots>>
       ELSE /\ pc' = "trace"
            /\ lines' = Append(lines, Line("header", Head(roots), 0))
            /\ stack' = <<Frame(Head(roots), 0, 0)>>
            /\ visited' = FreshVisited(visited)
            /\ roots' = Tail(roots)

\* trace_flow from its entry to the start of its loop over the triggers
trace_enter ==
    /\ UNCHANGED ivars
    /\ UNCHANGED cvars
    /\ pc = "trace" /\ stack # <<>> /\ stack[Len(stack)].i = 0
    /\ UNCHANGED <<wvars, svars, pvars, flow_params, roots>>
    /\ LET f == stack[Len(stack)]
           outcome == EnterOutcome(elements, f, visited, element_count, flow_params)
           counted == outcome \in {"missing", "emit", "raise"}
       IN  /\ visited' = IF counted THEN VisitedAfter(visited, f.element_id) ELSE visited
           /\ element_count' = IF counted THEN element_count + 1 ELSE element_count
           /\ visits' = IF counted
                        THEN Append(visits, [root |-> CurrentRoot, id |-> f.element_id,
                                             depth |-> f.depth])
                        ELSE visits
           /\ CASE outcome = "return" -> Return(lines)
                [] outcome = "limit" -> Return(Append(lines, Line("limit", None, f.indent)))
                [] outcome = "missing" -> Return(lines)
                [] outcome = "raise" -> pc' = "failed" /\ UNCHANGED <<stack, lines>>
                [] outcome = "emit" ->
                    /\ lines' = lines \o ElementLines(elements[IndexOfId(elements, f.element_id)],
                                                      f.indent)
                    /\ stack' = [stack EXCEPT ![Len(stack)].i = 1]
                    /\ pc' = "trace"

\* one pass of for trigger_id in element.triggers, or its end
trace_loop ==
    /\ UNCHANGED ivars
    /\ UNCHANGED cvars
    /\ pc = "trace" /\ stack # <<>> /\ stack[Len(stack)].i > 0
    /\ UNCHANGED <<wvars, svars, pvars, flow_params, roots, visited, element_count,
                   visits>>
    /\ LET f == stack[Len(stack)]
           element == elements[IndexOfId(elements, f.element_id)]
       IN  IF f.i > Len(element.triggers)
           THEN Return(lines)
           ELSE IF LimitReached(element_count, flow_params)
           THEN Return(Append(lines, Line("limit", None, f.indent + 1)))
           ELSE /\ stack' = Append([stack EXCEPT ![Len(stack)].i = f.i + 1],
                                   Frame(element.triggers[f.i], ChildDepth(f.depth),
                                         f.indent + 1))
                /\ UNCHANGED <<lines, pc>>

\* the end of visualize_flow: the display-limit warning, the response
flow_finish ==
    /\ UNCHANGED ivars
    /\ UNCHANGED cvars
    /\ pc \in {"finish", "error"}
    /\ UNCHANGED <<elements, bounded_contexts, next_id, svars, pvars, flow_params,
                   element_count, stack, visited, roots, visits>>
    /\ pc' = "done"
    /\ IF pc = "error"
       THEN /\ lines' = <<>>
            /\ result' = IF ~Exists(flow_params.workshop_id)
                          THEN WorkshopError("visualize_flow",
                                             flow_params.workshop_id)
                          ELSE Response("visualize_flow", FALSE,
                                        flow_params.start_element_id, <<>>,
                                        <<>>, <<>>)
       ELSE /\ lines' = IF LimitReached(element_count, flow_params)
                        THEN lines \o <<Line("blank", None, 0),
                                        Line("display_limit", None, 0)>>
                        ELSE lines
            /\ result' = Response("visualize_flow", TRUE,
                                  flow_params.start_element_id, <<>>, <<>>, <<>>)

\* The workshops the tracer runs on: two or three elements in collection
\* order, each triggering up to two ids (elements or not), with at most as
\* many trigger edges as there are elements
FlowSizes == {2, 3}
FlowIds(n) == {generate_id(k) : k \in 0..(n - 1)}
FlowTriggerLists(n) == UNION {[1..k -> FlowIds(n) \cup {Ghost}] : k \in {0, 1, 2}}
RECURSIVE SumLen(_)
SumLen(ls) == IF ls = <<>> THEN 0 ELSE Len(Head(ls)) + SumLen(Tail(ls))
FlowGraphs(n) == {g \in [1..n -> FlowTriggerLists(n)] : SumLen(g) <= n}
FlowElement(k, trig, trig_by) ==
    EventStormingElement(generate_id(k - 1), "event", "n", 0, EmptyStr,
                         get_timestamp(Epoch),
                         EmptyStr, trig, trig_by, None)
FlowInputs(n) ==
    [workshop_id : {WorkshopId},
     start_element_id : {None, Ghost} \cup FlowIds(n),
     max_depth : 1..MaxDepthInput \cup {DefaultMaxDepth},
     max_elements : 1..MaxElementsInput \cup {DefaultMaxElements}]

\* a stored workshop and a visualize_flow request for it; in a directed
\* request triggered_by is not read and stays empty
FlowInit ==
    /\ NoCallers
    /\ \E n \in FlowSizes : \E g \in FlowGraphs(n), by \in [1..n -> {<<>>, <<Ghost>>}] :
        /\ elements = [k \in 1..n |-> FlowElement(k, g[k], by[k])]
        /\ next_id = n
        /\ flow_params \in {p \in FlowInputs(n) :
                Truthy(p.start_element_id) => \A k \in 1..n : by[k] = <<>>}
    /\ bounded_contexts = <<>>
    /\ result = Response("create_workshop", TRUE, None, <<>>, <<>>, <<>>)
    /\ StoreIdle
    /\ pc = "start"
    /\ element_count = 0
    /\ stack = <<>>
    /\ visited = {}
    /\ roots = <<>>
    /\ lines = <<>>
    /\ visits = <<>>
    /\ PageIdle

FlowNext ==
    \/ flow_start
    \/ flow_next_root
    \/ trace_enter
    \/ trace_loop
    \/ flow_finish

\* the call runs to its end: nothing suspends it
FlowSpec == FlowInit /\ [][FlowNext]_vars /\ WF_vars(FlowNext)

\* DeepFlowSpec: directed traces from the first of four elements, to a
\* depth of three hops, on graphs where an element has a short and a long
\* path from the start; each element triggers up to two different ids,
\* elements or not, and there are at most four trigger edges; the first
\* element has no notes, notes of 99 or notes of 100 characters
DeepFlowSize == 4
DeepFlowDepth == 3
DeepTriggerLists ==
    {l \in FlowTriggerLists(DeepFlowSize) : \A i, j \in 1..Len(l) : i # j => l[i] # l[j]}
DeepFlowGraphs ==
    {g \in [1..DeepFlowSize -> DeepTriggerLists] :
        /\ SumLen(g) <= DeepFlowSize
        /\ \A k \in 1..DeepFlowSize : ~In(generate_id(k - 1), g[k])}

DeepFlowInit ==
    /\ NoCallers
    /\ \E g \in DeepFlowGraphs, notes \in {EmptyStr, AlmostLongNotes, LongNotes} :
        elements = [k \in 1..DeepFlowSize |->
                       [FlowElement(k, g[k], <<>>) EXCEPT
                           !.notes = IF k = 1 THEN notes ELSE EmptyStr]]
    /\ next_id = DeepFlowSize
    /\ flow_params \in [workshop_id : {WorkshopId},
                        start_element_id : {generate_id(0)},
                        max_depth : {DeepFlowDepth},
                        max_elements : {DeepFlowSize, DefaultMaxElements}]
    /\ bounded_contexts = <<>>
    /\ result = Response("create_workshop", TRUE, None, <<>>, <<>>, <<>>)
    /\ StoreIdle
    /\ pc = "start"
    /\ element_count = 0
    /\ stack = <<>>
    /\ visited = {}
    /\ roots = <<>>
    /\ lines = <<>>
    /\ visits = <<>>
    /\ PageIdle

DeepFlowNext ==
    \/ flow_start
    \/ trace_enter
    \/ trace_loop
    \/ flow_finish

DeepFlowSpec == DeepFlowInit /\ [][DeepFlowNext]_vars

(***************************************************************************)
(* paginate_list                                                           *)
(***************************************************************************)
\* the longest list read
MaxItems == 4
\* the largest page size asked for
MaxPageSize == 3
\* the highest page number asked for
MaxPage == 6

\* what the lists hold
ItemPool == {"a", "b"}

Min(a, b) == IF a < b THEN a ELSE b
Max(a, b) == IF a > b THEN a ELSE b

\* s[start:end] for 0 <= start, 0 <= end
Slice(s, start, end) ==
    LET lo == Min(start, Len(s))
        hi == Max(lo, Min(end, Len(s)))
    IN  [k \in 1..(hi - lo) |-> s[lo + k]]

\* total pages by floor division
TotalPagesFloor(total_items, size) ==
    IF total_items > 0 THEN total_items \div size ELSE 0

\* (total_items + page_size - 1) // page_size if total_items > 0 else 0
TotalPages(total_items, size) ==
    IF total_items > 0 THEN (total_items + size - 1) \div size ELSE 0

\* max(1, min(page, total_pages if total_pages > 0 else 1))
ClampPage(page, total_pages) ==
    Max(1, Min(page, IF total_pages > 0 THEN total_pages ELSE 1))

\* a start index that takes the page number for zero-based
StartIdxZeroBased(page, size) == page * size

\* start_idx = (page - 1) * page_size
StartIdx(page, size) == (page - 1) * size

\* PaginationInfo
PaginationInfo(page, size, total_items, total_pages) ==
    [page |-> page, page_size |-> size, total_items |-> total_items,
     total_pages |-> total_pages, has_next |-> page < total_pages,
     has_prev |-> page > 1]

\* paginate_list: the page's items and its PaginationInfo
paginate_list(list, page, size) ==
    LET total_items == Len(list)
        total_pages == TotalPages(total_items, size)
        clamped == ClampPage(page, total_pages)
        start_idx == StartIdx(clamped, size)
        end_idx == start_idx + size
    IN  [items |-> Slice(list, start_idx, end_idx),
         pagination |-> PaginationInfo(clamped, size, total_items, total_pages)]

\* one call, with the page it asked for
PageCall(list, page, size) ==
    [requested |-> page, out |-> paginate_list(list, page, size)]

\* a caller asks for any page
paginate_call ==
    /\ UNCHANGED ivars
    /\ UNCHANGED cvars
    /\ \E page \in 1..MaxPage : page_out' = PageCall(items, page, page_size)
    /\ UNCHANGED <<wvars, svars, fvars, items, page_size, pages_read, collected,
                   query>>

\* a reader asks for the page after the last one it read, while the list
\* has items beyond the pages read, and keeps what it gets
paginate_next ==
    /\ UNCHANGED ivars
    /\ UNCHANGED cvars
    /\ pages_read * page_size < Len(items)
    /\ page_out' = PageCall(items, pages_read + 1, page_size)
    /\ collected' = collected \o page_out'.out.items
    /\ pages_read' = pages_read + 1
    /\ UNCHANGED <<wvars, svars, fvars, items, page_size, query>>

\* a list and a page size
PageInit ==
    /\ NoCallers
    /\ elements = <<>>
    /\ bounded_contexts = <<>>
    /\ next_id = 0
    /\ result = Response("create_workshop", TRUE, None, <<>>, <<>>, <<>>)
    /\ StoreIdle
    /\ FlowIdle
    /\ items \in SeqUpTo(ItemPool, MaxItems)
    /\ page_size \in 1..MaxPageSize
    /\ page_out = <<>>
    /\ pages_read = 0
    /\ collected = <<>>
    /\ query = <<>>

PageNext ==
    \/ paginate_call
    \/ paginate_next

PageSpec == PageInit /\ [][PageNext]_vars

(***************************************************************************)
(* get_timeline                                                            *)
(***************************************************************************)
\* the most elements of a workshop whose timeline is asked for
MaxTimelineLen == 3
\* the highest position of an element
MaxPosition == 1

\* the code point of a character of a timestamp
Ord(c) ==
    CASE c = "." -> 46
      [] c = "0" -> 48
      [] c = "1" -> 49
      [] c = "Z" -> 90

\* a < b for two strings: Python compares them code point by code point, a
\* proper prefix being the smaller
RECURSIVE StrLess(_, _)
StrLess(a, b) ==
    IF b = <<>> THEN FALSE
    ELSE IF a = <<>> THEN TRUE
    ELSE IF Ord(Head(a)) # Ord(Head(b)) THEN Ord(Head(a)) < Ord(Head(b))
    ELSE StrLess(Tail(a), Tail(b))

\* (a.position, a.created_at) < (b.position, b.created_at)
KeyLess(a, b) ==
    \/ a.position < b.position
    \/ a.position = b.position /\ StrLess(a.created_at, b.created_at)

\* e put into the sorted list after every element whose key is not greater
RECURSIVE Insert(_, _)
Insert(sorted_els, e) ==
    IF sorted_els = <<>> THEN <<e>>
    ELSE IF KeyLess(e, Head(sorted_els)) THEN <<e>> \o sorted_els
    ELSE <<Head(sorted_els)>> \o Insert(Tail(sorted_els), e)

\* sorted(elements, key=lambda e: (e.position, e.created_at)): stable
RECURSIVE Sorted(_)
Sorted(els) ==
    IF els = <<>> THEN <<>>
    ELSE Insert(Sorted(SubSeq(els, 1, Len(els) - 1)), els[Len(els)])

\* the two filters of get_timeline, each applied when its parameter is truthy
TimelineFilter(els, p) ==
    LET by_type == IF Truthy(p.element_type)
                   THEN SelectSeq(els, LAMBDA e : e.type = p.element_type)
                   ELSE els
    IN  IF Truthy(p.bounded_context_id)
        THEN SelectSeq(by_type, LAMBDA e : e.bounded_context_id = p.bounded_context_id)
        ELSE by_type

\* GetTimelineInput
GetTimelineInput ==
    [element_type : {None, "command"},
     bounded_context_id : {None, EmptyStr, Ghost, generate_id(0)},
     page : 1..2,
     page_size : {2}]

\* get_timeline: filter, sort, paginate, respond
get_timeline(workshops, inputs) ==
    /\ UNCHANGED ivars
    /\ UNCHANGED cvars
    /\ UNCHANGED <<now, fvars, pages_read, collected>>
    /\ \E workshop_id \in workshops, p \in inputs :
        /\ request' = Request("get_timeline", workshop_id, p)
        /\ IF ~Exists(workshop_id)
           THEN /\ WorkshopNotFound("get_timeline", workshop_id)
                /\ UNCHANGED <<query, items, page_size, page_out>>
           ELSE LET sorted_els == Sorted(TimelineFilter(elements, p))
                    call == PageCall(sorted_els, p.page, p.page_size)
                IN  /\ query' = p
                    /\ items' = sorted_els
                    /\ page_size' = p.page_size
                    /\ page_out' = call
                    /\ result' = [op |-> "get_timeline", ok |-> TRUE,
                                  timeline |-> call.out.items,
                                  pagination |-> call.out.pagination]
                    /\ NoSave
                    /\ UNCHANGED next_id

\* the instants of the clock: a second, a microsecond later, the next second
Instants == {Instant(0, 0), Instant(0, 1), Instant(1, 0)}

\* t1 is not after t2
NotAfter(t1, t2) == t1.s < t2.s \/ (t1.s = t2.s /\ t1.us <= t2.us)

\* element k of a stored workshop: added at instant t with position pos
TimelineElement(k, type, pos, t, ctx) ==
    EventStormingElement(generate_id(k), type, "n", pos, EmptyStr,
                         get_timestamp(t), EmptyStr, <<>>, <<>>, ctx)

\* a stored workshop: create_workshop and create_bounded_context at the
\* first instant, then elements added one after another as the clock went
\* on, some of them in the context; the save of the last request stamped
\* metadata.updated_at, and the clock stands where that request left it
TimelineInit ==
    /\ NoCallers
    /\ \E n \in 0..MaxTimelineLen :
        \E type \in [1..n -> TypeInputs], pos \in [1..n -> 0..MaxPosition],
           t \in [1..n -> Instants], ctx \in [1..n -> {None, generate_id(0)}] :
            /\ \A k \in 1..(n - 1) : NotAfter(t[k], t[k + 1])
            /\ elements = [k \in 1..n |->
                              TimelineElement(k, type[k], pos[k], t[k], ctx[k])]
            /\ bounded_contexts =
                <<[BoundedContext(generate_id(0), "n", EmptyStr, None) EXCEPT
                     !.element_ids =
                        LET in_ctx == SelectSeq(elements,
                                LAMBDA e : e.bounded_context_id = generate_id(0))
                        IN  [k \in 1..Len(in_ctx) |-> in_ctx[k].id]]>>
            /\ next_id = n + 1
            /\ now = IF n = 0 THEN Epoch ELSE t[n]
            /\ result = IF n = 0
                        THEN Response("create_bounded_context", TRUE,
                                      generate_id(0), <<>>, <<>>, <<>>)
                        ELSE Response("add_element", TRUE, generate_id(n),
                                      <<>>, <<>>, <<>>)
    /\ created_at = get_timestamp(Epoch)
    /\ updated_at = get_timestamp(now)
    /\ imports = <<>>
    /\ writes = 1
    /\ request = <<>>
    /\ FlowIdle
    /\ PageIdle

TimelineNext == get_timeline({WorkshopId}, GetTimelineInput)

TimelineSpec == TimelineInit /\ [][TimelineNext]_vars

(***************************************************************************)
(* get_statistics                                                          *)
(***************************************************************************)
\* a per-type breakdown with a key for each type that has elements
ByTypePresent(els) ==
    [t \in {els[i].type : i \in 1..Len(els)} |->
        Len(SelectSeq(els, LAMBDA e : e.type = t))]

\* for etype in ElementType: stats["by_type"][etype.value] = count
ByType(els) ==
    [t \in Range(ElementType) |-> Len(SelectSeq(els, LAMBDA e : e.type = t))]

\* a per-context breakdown that adds to the count a name already has
RECURSIVE ByContextAdds(_)
ByContextAdds(ctxs) ==
    IF ctxs = <<>> THEN <<>>
    ELSE LET before == ByContextAdds(SubSeq(ctxs, 1, Len(ctxs) - 1))
             ctx == ctxs[Len(ctxs)]
         IN  [name \in DOMAIN before \cup {ctx.name} |->
                 IF name = ctx.name
                 THEN Len(ctx.element_ids)
                      + (IF name \in DOMAIN before THEN before[name] ELSE 0)
                 ELSE before[name]]

\* for ctx in bounded_contexts: stats["by_context"][ctx.name] = len(ctx.element_ids)
RECURSIVE ByContext(_)
ByContext(ctxs) ==
    IF ctxs = <<>> THEN <<>>
    ELSE LET before == ByContext(SubSeq(ctxs, 1, Len(ctxs) - 1))
             ctx == ctxs[Len(ctxs)]
         IN  [name \in DOMAIN before \cup {ctx.name} |->
                 IF name = ctx.name THEN Len(ctx.element_ids) ELSE before[name]]

\* the relationship counters, one pass over the elements
RECURSIVE Relationships(_)
Relationships(els) ==
    IF els = <<>>
    THEN [elements_with_triggers |-> 0, elements_with_triggered_by |-> 0,
          total_trigger_links |-> 0]
    ELSE LET r == Relationships(Tail(els))
             e == Head(els)
         IN  [elements_with_triggers |->
                 r.elements_with_triggers + (IF e.triggers # <<>> THEN 1 ELSE 0),
              elements_with_triggered_by |->
                 r.elements_with_triggered_by
                    + (IF e.triggered_by # <<>> THEN 1 ELSE 0),
              total_trigger_links |-> r.total_trigger_links + Len(e.triggers)]

\* coverage counters that test bounded_context_id against None
CoverageNonNull(els) ==
    [elements_in_contexts |->
        Len(SelectSeq(els, LAMBDA e : e.bounded_context_id # None)),
     elements_without_context |->
        Len(SelectSeq(els, LAMBDA e : e.bounded_context_id = None))]

\* the coverage counters: bounded_context_id truthy or not
Coverage(els) ==
    [elements_in_contexts |->
        Len(SelectSeq(els, LAMBDA e : Truthy(e.bounded_context_id))),
     elements_without_context |->
        Len(SelectSeq(els, LAMBDA e : ~Truthy(e.bounded_context_id)))]

\* the stats dict of get_statistics
Stats(w) ==
    [workshop |-> [updated_at |-> updated_at],
     totals |-> [elements |-> Len(w.elements),
                 bounded_contexts |-> Len(w.bounded_contexts)],
     by_type |-> ByType(w.elements),
     by_context |-> ByContext(w.bounded_contexts),
     relationships |-> Relationships(w.elements),
     coverage |-> Coverage(w.elements)]

\* the type names in the order sorted() puts them
SortedTypes == <<"actor", "aggregate", "command", "event", "external_system",
                 "hotspot", "policy", "read_model">>

\* A float of the code, as far as the coverage needs it: a number that is
\* not negative, m / 2^e, with m below 2^53 or 2^53 itself. m is a big
\* number: the sequence of its hexadecimal digits, the highest first and
\* not 0; <<>> is 0.
\* the digits of the int n
RECURSIVE DigitsOf(_)
DigitsOf(n) == IF n = 0 THEN <<>> ELSE Append(DigitsOf(n \div 16), n % 16)
\* int(x, 16)
RECURSIVE NatOf(_)
NatOf(x) ==
    IF x = <<>> THEN 0 ELSE 16 * NatOf(SubSeq(x, 1, Len(x) - 1)) + x[Len(x)]
\* x without the zeros in front
RECURSIVE Strip(_)
Strip(x) == IF x = <<>> \/ x[1] # 0 THEN x ELSE Strip(Tail(x))
\* x * k + carry, for ints k and carry
RECURSIVE MulSmall(_, _, _)
MulSmall(x, k, carry) ==
    IF x = <<>> THEN DigitsOf(carry)
    ELSE LET v == x[Len(x)] * k + carry
         IN  Append(MulSmall(SubSeq(x, 1, Len(x) - 1), k, v \div 16), v % 16)
\* x - y - borrow, for x >= y + borrow, with the zeros in front
RECURSIVE SubDigits(_, _, _)
SubDigits(x, y, borrow) ==
    IF x = <<>> THEN <<>>
    ELSE LET d == x[Len(x)] - (IF y = <<>> THEN 0 ELSE y[Len(y)]) - borrow
         IN  Append(SubDigits(SubSeq(x, 1, Len(x) - 1),
                              SubSeq(y, 1, Len(y) - 1),
                              IF d < 0 THEN 1 ELSE 0),
                    d % 16)
\* (r * 16^Len(x) + x) divided by the int k, for r < k: the quotient, with
\* the zeros in front, and the remainder
RECURSIVE DivSmall(_, _, _)
DivSmall(x, k, r) ==
    IF x = <<>> THEN [q |-> <<>>, r |-> r]
    ELSE LET v == 16 * r + x[1]
             after == DivSmall(Tail(x), k, v % k)
         IN  [q |-> <<v \div k>> \o after.q, r |-> after.r]
\* x.bit_length()
BitLength(x) ==
    IF x = <<>> THEN 0
    ELSE 4 * (Len(x) - 1)
         + (CASE x[1] >= 8 -> 4 [] x[1] >= 4 -> 3 [] x[1] >= 2 -> 2 [] OTHER -> 1)
\* x >> s, and whether a bit that is 1 was dropped
ShiftRight(x, s) ==
    LET kept == IF s \div 4 >= Len(x) THEN 0 ELSE Len(x) - s \div 4
        high == DivSmall(SubSeq(x, 1, kept), 2 ^ (s % 4), 0)
    IN  [q |-> Strip(high.q),
         rest |-> high.r # 0 \/ \E i \in (kept + 1)..Len(x) : x[i] # 0]
\* x / 2^s, s > 0, or a number just above it when rest is true, rounded to
\* the nearest integer and, halfway between two, to the even one
RoundHalfEven(x, s, rest) ==
    LET twice == ShiftRight(x, s - 1)
        half == twice.q # <<>> /\ twice.q[Len(twice.q)] % 2 = 1
        floor == ShiftRight(twice.q, 1).q
        odd == floor # <<>> /\ floor[Len(floor)] % 2 = 1
    IN  IF half /\ (rest \/ twice.rest \/ odd) THEN MulSmall(floor, 1, 1)
        ELSE floor

\* the number of bits of a float's significand
MantissaBits == 53

\* the float nearest to x / 2^e, or to a number just above it when rest is
\* true; of two floats as near, the one with the even significand
RoundFloat(x, rest, e) ==
    LET s == BitLength(x) - MantissaBits
    IN  IF s <= 0 THEN [m |-> x, e |-> e]
        ELSE [m |-> RoundHalfEven(x, s, rest), e |-> e - s]

\* the hexadecimal digits of r / q after the point, for r < q, up to the
\* need-th from the first that is not 0; rest tells whether more follow
RECURSIVE QuotientDigits(_, _, _, _)
QuotientDigits(r, q, need, begun) ==
    IF r = 0 \/ need = 0 THEN [digits |-> <<>>, rest |-> r # 0]
    ELSE LET digit == (16 * r) \div q
             on == begun \/ digit # 0
             after == QuotientDigits((16 * r) % q, q,
                                     IF on THEN need - 1 ELSE need, on)
         IN  [digits |-> <<digit>> \o after.digits, rest |-> after.rest]

\* p / q of two ints, 0 <= p <= q and q > 0: the float nearest to the
\* quotient. 15 digits from the first that is not 0 hold 57 bits or more.
TrueDiv(p, q) ==
    IF p = q THEN [m |-> <<1>>, e |-> 0]
    ELSE LET frac == QuotientDigits(p, q, 15, FALSE)
         IN  RoundFloat(Strip(frac.digits), frac.rest, 4 * Len(frac.digits))

\* x * 100, for the int 100 and a float x
Times100(x) == RoundFloat(MulSmall(x.m, 100, 0), FALSE, x.e)

\* 100 - x, for the int 100 and a float x <= 100
HundredMinus(x) ==
    LET hundred == MulSmall(<<2 ^ (x.e % 4)>> \o [i \in 1..(x.e \div 4) |-> 0],
                            100, 0)
    IN  RoundFloat(Strip(SubDigits(hundred, x.m, 0)), FALSE, x.e)

\* "{x:.1f}" without its point, for a float x: x is rounded to the nearest
\* tenth and, when it lies halfway between two tenths, to the even one
OneDecimal(x) ==
    IF x.e = 0 THEN 10 * NatOf(x.m)
    ELSE NatOf(RoundHalfEven(MulSmall(x.m, 10, 0), x.e, FALSE))

\* "{100 - percentage:.1f}", in tenths of a percent; percentage is the
\* float without / total * 100. The ints of the model have 32 bits, which
\* holds the division for totals below 2^27.
CoverageTenths(without, total) ==
    OneDecimal(HundredMinus(Times100(TrueDiv(without, total))))

\* the Markdown report: the types with elements in sorted order, the
\* contexts, the counters, and the coverage line when an element has no
\* context
StatsMarkdown(st) ==
    [types |-> SelectSeq(SortedTypes, LAMBDA t : st.by_type[t] > 0),
     by_type |-> [t \in {x \in DOMAIN st.by_type : st.by_type[x] > 0} |->
                    st.by_type[t]],
     by_context |-> st.by_context,
     totals |-> st.totals,
     relationships |-> st.relationships,
     coverage |-> st.coverage,
     coverage_line |->
        IF st.coverage.elements_without_context > 0
        THEN <<CoverageTenths(st.coverage.elements_without_context,
                              st.totals.elements)>>
        ELSE <<>>]

\* GetStatisticsInput
GetStatisticsInput == [response_format : {"json", "markdown"}]

get_statistics(workshops, inputs) ==
    /\ UNCHANGED ivars
    /\ UNCHANGED cvars
    /\ UNCHANGED <<now, fvars, pvars>>
    /\ \E workshop_id \in workshops, p \in inputs :
        /\ request' = Request("get_statistics", workshop_id, p)
        /\ IF ~Exists(workshop_id)
           THEN WorkshopNotFound("get_statistics", workshop_id)
           ELSE /\ result' = [op |-> "get_statistics", ok |-> TRUE,
                              format |-> p.response_format,
                              stats |-> IF p.response_format = "json"
                                        THEN Stats(Stored)
                                        ELSE StatsMarkdown(Stats(Stored))]
                /\ NoSave
                /\ UNCHANGED next_id

\* CreateBoundedContextInput with the given names
NamedContextInput(names) ==
    [name : names, description : {EmptyStr}, color : {None}]

\* StatsSpec: elements of two types with links, in contexts or not; contexts
\* of two names; statistics in both formats
StatsNext ==
    \/ /\ ElementsIssued < MaxElems
       /\ add_element({WorkshopId},
                      AddElementInput(TypeInputs, {<<0>>},
                                      LinkInputs \cup {<<Ghost, Ghost>>},
                                      LinkInputs,
                                      ContextIds \cup {None, EmptyStr}))
    \/ /\ ContextsIssued < MaxCtxs
       /\ create_bounded_context({WorkshopId}, NamedContextInput({"a", "b"}))
    \/ get_statistics({WorkshopId}, GetStatisticsInput)

StatsSpec == Init /\ [][StatsNext]_vars

(***************************************************************************)
(* The other read requests, and the requests of one server                 *)
(***************************************************************************)
\* str.lower()
Lower(cs) == [i \in 1..Len(cs) |-> IF cs[i] = "N" THEN "n" ELSE cs[i]]

\* a in b, for strings
Contains(a, b) ==
    \E i \in 0..(Len(b) - Len(a)) : SubSeq(b, i + 1, i + Len(a)) = a

\* a search that looks for the query in the names only
SearchMatchesNameOnly(els, p) ==
    LET query_lower == Lower(Chars(p.query))
    IN  SelectSeq(els, LAMBDA e :
            /\ Truthy(p.element_type) => e.type = p.element_type
            /\ Truthy(p.bounded_context_id)
                  => e.bounded_context_id = p.bounded_context_id
            /\ Contains(query_lower, Lower(Chars(e.name))))

\* search_elements: the elements that pass the two filters and have the
\* lowered query in the lowered name or notes
SearchMatches(els, p) ==
    LET query_lower == Lower(Chars(p.query))
    IN  SelectSeq(els, LAMBDA e :
            /\ Truthy(p.element_type) => e.type = p.element_type
            /\ Truthy(p.bounded_context_id)
                  => e.bounded_context_id = p.bounded_context_id
            /\ \/ Contains(query_lower, Lower(Chars(e.name)))
               \/ Contains(query_lower, Lower(Chars(e.notes))))

\* SearchElementsInput
SearchElementsInput ==
    [query : {"n", "N", "x"}, element_type : {None, "event"},
     bounded_context_id : {None, Ghost}, page : {1}, page_size : {1}]

\* search_elements, response_format json
search_elements(workshops, inputs) ==
    /\ UNCHANGED ivars
    /\ UNCHANGED cvars
    /\ UNCHANGED <<now, fvars, pvars>>
    /\ \E workshop_id \in workshops, p \in inputs :
        /\ request' = Request("search_elements", workshop_id, p)
        /\ IF ~Exists(workshop_id)
           THEN WorkshopNotFound("search_elements", workshop_id)
           ELSE LET out == paginate_list(SearchMatches(elements, p), p.page,
                                         p.page_size)
                IN  /\ result' = [op |-> "search_elements", ok |-> TRUE,
                                  query |-> p.query, matches |-> out.items,
                                  pagination |-> out.pagination]
                    /\ NoSave
                    /\ UNCHANGED next_id

\* get_context_overview: one entry of the JSON result
ContextOverview(w, ctx, p) ==
    LET els == SelectSeq(w.elements, LAMBDA e : In(e.id, ctx.element_ids))
        out == paginate_list(els, p.page, p.page_size)
    IN  [context |-> ctx, elements |-> out.items, pagination |-> out.pagination,
         type_breakdown |-> ByType(els)]

\* GetContextOverviewInput
GetContextOverviewInput ==
    [context_id : {None, Ghost} \cup ContextIds, page : {1}, page_size : {1}]

\* get_context_overview, response_format json
get_context_overview(workshops, inputs) ==
    /\ UNCHANGED ivars
    /\ UNCHANGED cvars
    /\ UNCHANGED <<now, fvars, pvars>>
    /\ \E workshop_id \in workshops, p \in inputs :
        /\ request' = Request("get_context_overview", workshop_id, p)
        /\ IF ~Exists(workshop_id)
           THEN WorkshopNotFound("get_context_overview", workshop_id)
           ELSE LET contexts == IF Truthy(p.context_id)
                                THEN SelectSeq(bounded_contexts,
                                               LAMBDA c : c.id = p.context_id)
                                ELSE bounded_contexts
                IN  /\ result' = [op |-> "get_context_overview", ok |-> TRUE,
                                  contexts |-> [k \in 1..Len(contexts) |->
                                      ContextOverview(Stored, contexts[k], p)]]
                    /\ NoSave
                    /\ UNCHANGED next_id

\* workshop.model_dump(), as far as the model has it
ModelDump == [elements |-> elements, bounded_contexts |-> bounded_contexts,
              metadata |-> [id |-> WorkshopId, name |-> "W",
                            created_at |-> created_at,
                            updated_at |-> updated_at]]

\* ExportWorkshopInput
ExportWorkshopInput == [include_metadata : BOOLEAN]

\* export_data: the dump, its metadata cut down to the descriptive fields
\* unless include_metadata is set, and export_info
ExportData(p) ==
    [elements |-> ModelDump.elements,
     bounded_contexts |-> ModelDump.bounded_contexts,
     metadata |-> IF p.include_metadata THEN ModelDump.metadata
                  ELSE [name |-> ModelDump.metadata.name],
     export_info |-> [exported_at |-> get_timestamp(now)]]

export_workshop(workshops, inputs) ==
    /\ UNCHANGED ivars
    /\ UNCHANGED cvars
    /\ UNCHANGED <<now, fvars, pvars>>
    /\ \E workshop_id \in workshops, p \in inputs :
        /\ request' = Request("export_workshop", workshop_id, p)
        /\ IF ~Exists(workshop_id)
           THEN WorkshopNotFound("export_workshop", workshop_id)
           ELSE /\ result' = [op |-> "export_workshop", ok |-> TRUE,
                              data |-> ExportData(p)]
                /\ NoSave
                /\ UNCHANGED next_id

\* a payload json.loads fails on
NotJson == [invalid_json |-> TRUE]

\* a JSON object without the key "metadata"
WithoutMetadata(data) ==
    [elements |-> data.elements, bounded_contexts |-> data.bounded_contexts]

\* Workshop(**data): the fields of the model are read, other keys such as
\* export_info are ignored; without metadata, or without one of its
\* required fields, validation fails
Validates(data) ==
    /\ "metadata" \in DOMAIN data
    /\ {"id", "name", "created_at", "updated_at"} \subseteq DOMAIN data.metadata

\* an import that keeps the timestamps of the payload when it has them
ImportedMetadataKept(data, new_id, timestamp) ==
    [id |-> new_id, name |-> data.metadata.name,
     created_at |-> IF "created_at" \in DOMAIN data.metadata
                    THEN data.metadata.created_at ELSE timestamp,
     updated_at |-> timestamp]

\* import_workshop: the metadata of the payload with the new id and the
\* timestamp; save_workshop sets updated_at once more
ImportedMetadata(data, new_id, timestamp) ==
    [id |-> new_id, name |-> data.metadata.name,
     created_at |-> timestamp, updated_at |-> timestamp]

\* import_workshop: a new workshop file from the payload, under a new id
import_workshop(inputs) ==
    /\ UNCHANGED <<created_at, cvars, fvars, pvars, now>>
    /\ \E data \in inputs :
        /\ request' = Request("import_workshop", None, data)
        /\ IF DOMAIN data = DOMAIN NotJson
           THEN /\ result' = [op |-> "import_workshop", ok |-> FALSE,
                              error |-> "Invalid JSON data"]
                /\ NoSave
                /\ UNCHANGED <<next_id, imports>>
           ELSE LET new_id == generate_id(next_id)
                    timestamp == get_timestamp(now)
                    filled == IF "metadata" \in DOMAIN data
                              THEN [data EXCEPT !.metadata =
                                       ImportedMetadata(data, new_id, timestamp)]
                              ELSE data
                IN  /\ next_id' = next_id + 1
                    /\ IF Validates(filled)
                       THEN /\ imports' = Append(imports,
                                   [metadata |-> filled.metadata,
                                    elements |-> filled.elements,
                                    bounded_contexts |-> filled.bounded_contexts])
                            /\ result' = [op |-> "import_workshop", ok |-> TRUE,
                                          id |-> new_id]
                            /\ writes' = 1
                            /\ UNCHANGED <<elements, bounded_contexts, updated_at>>
                       ELSE /\ result' = [op |-> "import_workshop", ok |-> FALSE,
                                          error |-> "Failed to import workshop"]
                            /\ NoSave
                            /\ UNCHANGED imports

\* load_workshop_tool, response_format json and detail_level full
load_workshop_tool(workshops) ==
    /\ UNCHANGED ivars
    /\ UNCHANGED cvars
    /\ UNCHANGED <<now, fvars, pvars>>
    /\ \E workshop_id \in workshops :
        /\ request' = Request("load_workshop", workshop_id, <<>>)
        /\ IF ~Exists(workshop_id)
           THEN WorkshopNotFound("load_workshop", workshop_id)
           ELSE /\ result' = [op |-> "load_workshop", ok |-> TRUE,
                              data |-> ModelDump]
                /\ NoSave
                /\ UNCHANGED next_id

\* a visualize_flow request arrives
visualize_flow(workshops, inputs) ==
    /\ UNCHANGED ivars
    /\ UNCHANGED cvars
    /\ pc = "idle"
    /\ \E workshop_id \in workshops, p \in inputs :
        flow_params' = [p EXCEPT !.workshop_id = workshop_id]
    /\ pc' = "start"
    /\ element_count' = 0
    /\ stack' = <<>>
    /\ visited' = {}
    /\ roots' = <<>>
    /\ lines' = <<>>
    /\ visits' = <<>>
    /\ UNCHANGED <<wvars, svars, pvars>>

\* visualize_flow has returned: its locals are gone
flow_return ==
    /\ UNCHANGED ivars
    /\ UNCHANGED cvars
    /\ pc = "done"
    /\ flow_params' = <<>>
    /\ pc' = "idle"
    /\ element_count' = 0
    /\ stack' = <<>>
    /\ visited' = {}
    /\ roots' = <<>>
    /\ lines' = <<>>
    /\ visits' = <<>>
    /\ UNCHANGED <<wvars, svars, pvars>>

\* the clock goes on, to one of the given instants
tick(instants) ==
    /\ UNCHANGED ivars
    /\ UNCHANGED cvars
    /\ \E t \in instants : ~NotAfter(t, now) /\ now' = t
    /\ UNCHANGED <<wvars, updated_at, writes, request, fvars, pvars>>

\* a server that has handled no request, and no workshop stored
RequestInit ==
    /\ NoCallers
    /\ elements = <<>>
    /\ bounded_contexts = <<>>
    /\ next_id = 0
    /\ result = [op |-> None, ok |-> TRUE]
    /\ updated_at = NoFile
    /\ created_at = NoFile
    /\ imports = <<>>
    /\ now = Epoch
    /\ writes = 0
    /\ request = Request(None, None, <<>>)
    /\ FlowIdle
    /\ PageIdle

\* RequestSpec: every request, for the stored workshop and for an id that
\* names none, on elements, contexts and ids that exist or do not; a handler
\* has no await, so a request runs to its end before the next one starts
RequestNext ==
    \/ tick({Instant(1, 0)})
    \/ flow_start
    \/ flow_next_root
    \/ trace_enter
    \/ trace_loop
    \/ flow_finish
    \/ flow_return
    \/ /\ pc = "idle"
       /\ \/ create_workshop
          \/ /\ ElementsIssued < MaxElems - 1
             /\ add_element(WorkshopInputs,
                            AddElementInput({"event"}, {<<0>>}, {<<>>}, {<<>>},
                                            ContextIds \cup {None}))
          \/ update_element(WorkshopInputs,
                            UpdateElementInput({<<1>>}, {<<>>}, {<<>>},
                                               {None}))
          \/ delete_element(WorkshopInputs, TargetInputs)
          \/ /\ ContextsIssued < MaxCtxs - 1
             /\ create_bounded_context(WorkshopInputs, CreateBoundedContextInput)
          \/ assign_to_context(WorkshopInputs,
                               AssignToContextInput(ContextIds \cup {Ghost},
                                                    AssignInputs))
          \/ search_elements(WorkshopInputs,
                             {p \in SearchElementsInput :
                                 /\ p.query \in {"N", "x"}
                                 /\ p.element_type = None
                                 /\ p.bounded_context_id = None})
          \/ get_timeline(WorkshopInputs,
                          {p \in GetTimelineInput :
                              p.element_type = None /\ p.bounded_context_id = None
                              /\ p.page = 1})
          \/ get_context_overview(WorkshopInputs,
                                  {p \in GetContextOverviewInput :
                                      p.context_id = None})
          \/ get_statistics(WorkshopInputs, {p \in GetStatisticsInput :
                                                p.response_format = "json"})
          \/ export_workshop(WorkshopInputs,
                             {p \in ExportWorkshopInput : p.include_metadata})
          \/ load_workshop_tool(WorkshopInputs)
          \/ visualize_flow(WorkshopInputs,
                            {p \in FlowInputs(1) :
                                /\ p.max_depth = DefaultMaxDepth
                                /\ p.max_elements = DefaultMaxElements})

RequestSpec == RequestInit /\ [][RequestNext]_vars

\* the workshops imported in one run
MaxImports == 2

\* what a caller hands to import_workshop: the payload of the export just
\* made, that payload without its metadata, or no JSON at all
Payloads ==
    {NotJson} \cup (IF result.op = "export_workshop" /\ result.ok
                    THEN {result.data, WithoutMetadata(result.data)}
                    ELSE {})

\* SearchSpec: elements of two types, with names and notes in either case,
\* in a context or in none; searches for every query, filter and page
SearchNext ==
    \/ /\ ElementsIssued < MaxElems
       /\ add_element({WorkshopId},
                      [type : {"event", "command"}, name : {"N", "x"},
                       position : {<<0>>}, notes : {EmptyStr, "nn"},
                       created_by : {EmptyStr}, triggers : {<<>>},
                       triggered_by : {<<>>},
                       bounded_context_id : {None, Ghost}])
    \/ search_elements({WorkshopId},
                       [query : {"n", "N", "nn", "x"},
                        element_type : {None, "event"},
                        bounded_context_id : {None, EmptyStr, Ghost},
                        page : {1, 2}, page_size : {1, 2}])

SearchSpec == Init /\ [][SearchNext]_vars

\* FrameSpec: elements that trigger each other or not; callers rename them,
\* replace their triggers and triggered_by and name a context for them
FrameNext ==
    \/ /\ ElementsIssued < MaxElems
       /\ add_element({WorkshopId},
                      AddElementInput({"event"}, {<<0>>}, LinkInputs, {<<>>},
                                      {None}))
    \/ update_element({WorkshopId},
                      [element_id : TargetInputs, name : {None, "x"},
                       position : {<<>>}, notes : {None},
                       triggers : Opt(LinkInputs),
                       triggered_by : Opt({<<>>}),
                       bounded_context_id : {None, Ghost}])

FrameSpec == Init /\ [][FrameNext]_vars

\* PersistSpec: contexts of two names and two colours; elements added to
\* them, moved between them, taken out of them and deleted
PersistNext ==
    \/ /\ ElementsIssued < MaxElems
       /\ add_element({WorkshopId},
                      AddElementInput({"event"}, {<<0>>}, {<<>>}, {<<>>},
                                      ContextIds \cup {None}))
    \/ update_element({WorkshopId},
                      UpdateElementInput({<<>>}, {<<>>}, {<<>>},
                                         ContextIds \cup {NullSentinel}))
    \/ delete_element({WorkshopId}, ElementIds)
    \/ /\ ContextsIssued < MaxCtxs
       /\ create_bounded_context({WorkshopId},
                                 [name : {"a", "b"}, description : {EmptyStr},
                                  color : {None, "red"}])
    \/ assign_to_context({WorkshopId},
                         AssignToContextInput(ContextIds, AssignInputs))

PersistSpec == Init /\ [][PersistNext]_vars

\* ImportSpec: a workshop is built, the clock goes on, callers export it
\* with and without its metadata and import what they got
ImportNext ==
    \/ /\ Len(elements) < MaxElems /\ next_id < Len(IdPool)
       /\ add_element({WorkshopId},
                      AddElementInput({"event"}, {<<0>>}, {<<>>}, {<<>>},
                                      ContextIds \cup {None}))
    \/ /\ Len(bounded_contexts) < MaxCtxs - 1 /\ next_id < Len(IdPool)
       /\ create_bounded_context({WorkshopId}, CreateBoundedContextInput)
    \/ tick({Instant(1, 0)})
    \/ export_workshop({WorkshopId}, ExportWorkshopInput)
    \/ /\ Len(imports) < MaxImports /\ next_id < Len(IdPool)
       /\ import_workshop(Payloads)

ImportSpec == Init /\ [][ImportNext]_vars

(***************************************************************************)
(* Two processes on one storage directory                                  *)
(***************************************************************************)
\* the snapshot a handler works on: the one load_workshop returned to it
Loaded(c) == callers[c].workshop

\* the handler of request r succeeds on the snapshot w
Applicable(r, w) ==
    LET element_ids == {w.elements[k].id : k \in 1..Len(w.elements)}
        context_ids == {w.bounded_contexts[k].id :
                           k \in 1..Len(w.bounded_contexts)}
    IN  CASE r.op = "update_element" -> r.params.element_id \in element_ids
          [] r.op = "delete_element" -> r.params \in element_ids
          [] r.op = "assign_to_context" -> r.params.context_id \in context_ids
          [] OTHER -> TRUE

\* what the handler of request r makes of the snapshot w; id is the id it
\* generates, if it generates one
Apply(r, w, id, ts) ==
    CASE r.op = "add_element" -> AddElementOp(w, id, r.params, ts)
      [] r.op = "update_element" -> UpdateElementOp(w, r.params, ts)
      [] r.op = "delete_element" -> DeleteElementOp(w, r.params)
      [] r.op = "create_bounded_context" ->
            CreateBoundedContextOp(w, id, r.params)
      [] r.op = "assign_to_context" ->
            AssignToContextOp(w, r.params.context_id, r.params.element_ids)

\* the response of the handler of request r on the snapshot w
Answer(r, w, id) ==
    CASE r.op \in {"add_element", "create_bounded_context"} ->
            Response(r.op, TRUE, id, <<>>, <<>>, <<>>)
      [] r.op = "update_element" ->
            Response(r.op, Applicable(r, w), r.params.element_id,
                     IF Applicable(r, w) THEN UpdatedFields(r.params) ELSE <<>>,
                     <<>>, <<>>)
      [] r.op = "delete_element" ->
            Response(r.op, Applicable(r, w), r.params, <<>>, <<>>, <<>>)
      [] r.op = "assign_to_context" ->
            Response(r.op, Applicable(r, w), r.params.context_id, <<>>,
                     IF Applicable(r, w)
                     THEN Assigned(w, r.params.element_ids) ELSE <<>>,
                     IF Applicable(r, w)
                     THEN NotFound(w, r.params.element_ids) ELSE <<>>)

\* the op generates an id
Generates(op) == op \in {"add_element", "create_bounded_context"}

\* the saves of the callers so far
SavesDone == Cardinality({c \in Callers : callers[c].pc = "saved"})

\* the mutating requests a caller sends
RaceRequests ==
    {Request("add_element", WorkshopId, p) :
        p \in AddElementInput({"event"}, {<<>>}, {<<>>}, {<<>>},
                              ContextIds \cup {None})}
    \cup {Request("update_element", WorkshopId, p) :
        p \in UpdateElementInput({<<>>, <<1>>}, {<<>>}, {<<>>},
                                 ContextIds \cup {None})
              \ UpdateElementInput({<<>>}, {<<>>}, {<<>>}, {None})}
    \cup {Request("delete_element", WorkshopId, x) : x \in ElementIds}
    \cup {Request("create_bounded_context", WorkshopId, p) :
        p \in CreateBoundedContextInput}
    \cup {Request("assign_to_context", WorkshopId, p) :
        p \in AssignToContextInput(ContextIds, AssignInputs)}

\* json.load reads a workshop from the file; from a file that is being
\* written or holds the bytes of two writes it raises JSONDecodeError
Readable == file = Whole

\* len(json.dumps(workshop.model_dump(), indent=2, ensure_ascii=False)),
\* the bytes save_workshop writes, for a workshop that create_workshop made
\* with the name "W" and the two processes changed: events named "n" at
\* positions of one digit, without notes and creator; contexts named "ctx"
\* without description and color; ids of 36 characters, as str(uuid4()) has.
\* A timestamp has 20 characters without its fraction and 27 with it; a list
\* of ids takes 2 bytes when empty and 8 and 48 for each id otherwise.
TimestampBytes(ts) == IF Len(ts) = 2 THEN 20 ELSE 27
IdListBytes(ids) == IF ids = <<>> THEN 0 ELSE 6 + 48 * Len(ids)
ElementBytes(e) ==
    300 + TimestampBytes(e.created_at) + TimestampBytes(e.updated_at)
        + (IF e.bounded_context_id = None THEN 0 ELSE 34)
        + IdListBytes(e.triggers) + IdListBytes(e.triggered_by)
ContextBytes(c) == 156 + IdListBytes(c.element_ids)
RECURSIVE ElementsBytes(_)
ElementsBytes(els) ==
    IF els = <<>> THEN 0 ELSE ElementBytes(Head(els)) + ElementsBytes(Tail(els))
RECURSIVE ContextsBytes(_)
ContextsBytes(ctxs) ==
    IF ctxs = <<>> THEN 0 ELSE ContextBytes(Head(ctxs)) + ContextsBytes(Tail(ctxs))
FileBytes(w, created, updated) ==
    271 + TimestampBytes(created) + TimestampBytes(updated)
        + (IF w.elements = <<>> THEN 0 ELSE 2 + ElementsBytes(w.elements))
        + (IF w.bounded_contexts = <<>> THEN 0
           ELSE 2 + ContextsBytes(w.bounded_contexts))

\* the length of the file
FileLen ==
    CASE file = Whole -> FileBytes(Stored, created_at, updated_at)
      [] file = Truncated -> 0
      [] OTHER -> file[2]

\* a handler of process c starts: load_workshop reads the file; the handler
\* catches FileNotFoundError only, so a JSONDecodeError ends it
race_load(c) ==
    /\ UNCHANGED ivars
    /\ callers[c].pc = "idle"
    /\ \E r \in RaceRequests :
        callers' = [callers EXCEPT ![c] =
                       IF Readable
                       THEN [pc |-> "loaded", request |-> r, workshop |-> Stored,
                             saves_before |-> SavesDone]
                       ELSE [pc |-> "raised", request |-> r]]
    /\ UNCHANGED <<wvars, svars, fvars, pvars, file>>

\* the handler of process c goes on with what it loaded, and save_workshop
\* opens the file for writing, which truncates it
race_open(c) ==
    /\ UNCHANGED ivars
    /\ callers[c].pc = "loaded"
    /\ UNCHANGED <<fvars, pvars, now, elements, bounded_contexts, updated_at>>
    /\ LET r == callers[c].request
           w == Loaded(c)
           id == IF Generates(r.op) THEN generate_id(next_id) ELSE None
       IN  /\ next_id' = IF Generates(r.op) THEN next_id + 1 ELSE next_id
           /\ IF Applicable(r, w)
              THEN /\ file' = Truncated
                   /\ callers' = [callers EXCEPT ![c] =
                          [pc |-> "writing", request |-> r,
                           workshop |-> callers[c].workshop,
                           saves_before |-> callers[c].saves_before,
                           id |-> id,
                           content |-> Apply(r, w, id, get_timestamp(now))]]
                   /\ UNCHANGED <<result, writes, request>>
              ELSE /\ request' = r
                   /\ result' = Answer(r, w, id)
                   /\ writes' = 0
                   /\ callers' = [callers EXCEPT ![c] = [pc |-> "failed"]]
                   /\ UNCHANGED file

\* json.dump hands what process c made to the file object, which writes it
\* from the start of the file in one piece when it is closed, the file
\* being shorter than a buffer. When another process has written since c
\* opened the file, c's bytes replace the first ones of that write: the file
\* holds c's workshop when that write was no longer than c's, and c's bytes
\* followed by the rest of the other write otherwise. The handler answers.
race_write(c) ==
    /\ UNCHANGED ivars
    /\ callers[c].pc = "writing"
    /\ UNCHANGED <<fvars, pvars, now, next_id>>
    /\ LET me == callers[c]
           answer == Answer(me.request, me.workshop, me.id)
       IN  /\ request' = me.request
           /\ result' = answer
           /\ callers' = [callers EXCEPT ![c] =
                  [pc |-> "saved", request |-> me.request,
                   workshop |-> me.workshop,
                   saves_before |-> me.saves_before,
                   id |-> me.id, save_no |-> SavesDone + 1,
                   result |-> answer]]
           /\ IF FileBytes(me.content, created_at, get_timestamp(now)) >= FileLen
              THEN /\ file' = Whole
                   /\ Save(me.content)
              ELSE /\ file' = Mixed(FileLen)
                   /\ writes' = 1
                   /\ UNCHANGED <<elements, bounded_contexts, updated_at>>

\* a stored workshop with a context and an element, which the third process,
\* this one, leaves alone
RaceInit ==
    /\ elements = <<EventStormingElement(generate_id(1), "event", "n", 0,
                        EmptyStr, get_timestamp(Epoch), EmptyStr, <<>>, <<>>,
                        None)>>
    /\ bounded_contexts = <<BoundedContext(generate_id(0), "ctx", EmptyStr, None)>>
    /\ next_id = 2
    /\ result = Response("add_element", TRUE, generate_id(1), <<>>, <<>>, <<>>)
    /\ StoreIdle
    /\ FlowIdle
    /\ PageIdle
    /\ NoCallers

\* RaceSpec: each of the two processes handles one mutating request; the
\* loads, the opens and the writes come in any order
RaceNext ==
    \E c \in Callers :
        \/ race_load(c)
        \/ race_open(c)
        \/ race_write(c)

RaceSpec == RaceInit /\ [][RaceNext]_vars

(***************************************************************************)
(* Properties of the mutations                                             *)
(***************************************************************************)
\* the ids of the elements assigned to context c
MembersOf(c) ==
    {elements[i].id : i \in {j \in 1..Len(elements) :
                                elements[j].bounded_context_id = c.id}}

\* C1: after a successful delete_element(X) the stored snapshot holds no
\* element X, no remaining element lists X in triggers or triggered_by, and
\* no bounded context lists X in element_ids.
DeleteRemovesAllReferences ==
    (result.op = "delete_element" /\ result.ok) =>
        /\ \A i \in 1..Len(elements) :
            /\ elements[i].id # result.id
            /\ ~In(result.id, elements[i].triggers)
            /\ ~In(result.id, elements[i].triggered_by)
        /\ \A k \in 1..Len(bounded_contexts) :
            ~In(result.id, bounded_contexts[k].element_ids)

\* C1 witness: a delete succeeded while another element, which still has a
\* link of its own, and two bounded contexts, one of them with a member,
\* remain
DeleteWitness ==
    /\ result.op = "delete_element" /\ result.ok
    /\ Len(bounded_contexts) = 2
    /\ \E k \in 1..Len(bounded_contexts) :
        bounded_contexts[k].element_ids # <<>>
    /\ \E i \in 1..Len(elements) : elements[i].triggers # <<>>

\* C2: every bounded context's element_ids is exactly the set of ids of the
\* elements whose bounded_context_id is that context's id.
ContextMirrorsElements ==
    \A k \in 1..Len(bounded_contexts) :
        Range(bounded_contexts[k].element_ids) = MembersOf(bounded_contexts[k])

\* the step is a successful call of the tool op
Succeeds(op) == request'.op = op /\ result'.ok /\ writes' = 1

\* C11: add_element without a position gives the new element the number of
\* elements of its type in the workshop before the call, whatever elements
\* of other types there are; with a position it gives that position.
AutoPositionCounts ==
    [][Succeeds("add_element") =>
        LET p == request'.params
            e == elements'[Len(elements')]
            same == {i \in 1..Len(elements) : elements[i].type = p.type}
        IN  /\ Len(elements') = Len(elements) + 1
            /\ e.type = p.type
            /\ e.position = IF p.position = <<>> THEN Cardinality(same)
                             ELSE p.position[1]]_vars

\* C11 witness: an element added without a position to a workshop that held
\* two elements of its type and one of another type
AutoPositionWitness ==
    /\ request # <<>> /\ request.op = "add_element" /\ result.ok
    /\ request.params.position = <<>>
    /\ Len(elements) = 4
    /\ elements[4].id = result.id
    /\ elements[4].position = 2
    /\ Cardinality({i \in 1..3 : elements[i].type = elements[4].type}) = 2

\* how many times x occurs in the list s
Count(s, x) == Cardinality({k \in 1..Len(s) : s[k] = x})

\* C12: assign_to_context on a context that exists reports success whatever
\* ids it is given; every id of the request that names an element has that
\* element in the context afterwards, once in element_ids; every id that
\* names no element is reported as not found and changes nothing.
AssignToleratesMissing ==
    [][(request'.op = "assign_to_context"
        /\ request'.workshop_id = WorkshopId
        /\ request'.params.context_id \in ContextIds) =>
        LET ctx == request'.params.context_id
            ids == request'.params.element_ids
            named == Range(ids) \cap ElementIds
            ci == CHOOSE k \in 1..Len(bounded_contexts) : bounded_contexts[k].id = ctx
        IN  /\ result'.ok /\ writes' = 1
            /\ Len(elements') = Len(elements)
            /\ Len(bounded_contexts') = Len(bounded_contexts)
            /\ \A i \in 1..Len(elements) :
                elements'[i] = IF elements[i].id \in named
                               THEN [elements[i] EXCEPT !.bounded_context_id = ctx]
                               ELSE elements[i]
            /\ \A x \in named : Count(bounded_contexts'[ci].element_ids, x) = 1
            /\ \A x \in Range(ids) \ named :
                /\ In(x, result'.not_found)
                /\ \A k \in 1..Len(bounded_contexts) :
                    ~In(x, bounded_contexts'[k].element_ids)
            /\ Range(result'.assigned) = named
            /\ Range(result'.not_found) = Range(ids) \ named
            /\ \A k \in 1..Len(bounded_contexts) :
                k # ci => bounded_contexts'[k] = bounded_contexts[k]]_vars

\* C12 witness: the list [e1, e2, missing] was assigned
AssignMissingWitness ==
    /\ request # <<>> /\ request.op = "assign_to_context" /\ result.ok
    /\ Len(elements) = 2
    /\ request.params.element_ids = <<elements[1].id, elements[2].id, Ghost>>
    /\ result.assigned = <<elements[1].id, elements[2].id>>
    /\ result.not_found = <<Ghost>>

(***************************************************************************)
(* Properties of the flow tracer                                           *)
(***************************************************************************)
\* the ids element id triggers; none when no element has that id
Triggered(id) ==
    IF IndexOfId(elements, id) = 0 THEN {}
    ELSE Range(elements[IndexOfId(elements, id)].triggers)

\* the ids at most k trigger hops away from id
RECURSIVE Within(_, _)
Within(id, k) ==
    IF k = 0 THEN {id}
    ELSE LET near == Within(id, k - 1)
         IN  near \cup UNION {Triggered(x) : x \in near}

\* the ids on a trigger cycle
OnCycle(id) == \E x \in Triggered(id) : id \in Within(x, Len(elements))

VisitedIds == {visits[k].id : k \in 1..Len(visits)}
EmittedAt == {k \in 1..Len(lines) : lines[k].kind = "element"}
Emitted == SelectSeq(lines, LAMBDA l : l.kind = "element")
EmittedIds == {lines[k].id : k \in EmittedAt}
\* the index of the "Flow from" header line k stands under
HeaderOf(k) ==
    CHOOSE h \in 1..k : lines[h].kind = "header"
                        /\ \A j \in (h + 1)..k : lines[j].kind # "header"
Headers == SelectSeq(lines, LAMBDA l : l.kind = "header")
HasMarker == \E k \in 1..Len(lines) : lines[k].kind \in {"limit", "display_limit"}

\* C3: the flow trace terminates for every trigger graph (cycles, self-loops,
\* trigger ids that name no element), every start element and the all-roots
\* mode, every max_depth and max_elements: every call reaches its response.
FlowTerminates == <>(pc = "done")

\* C3 witness: a call that came to its end on a workshop where a visited
\* element lies on a trigger cycle and a visited id names no element
FlowTerminatesWitness ==
    /\ pc = "done" /\ result.ok
    /\ \E id \in VisitedIds : OnCycle(id)
    /\ Ghost \in VisitedIds

\* the workshop of C4's example: A triggers B, B triggers A
TwoCycle ==
    /\ Len(elements) = 2
    /\ elements[1].triggers = <<elements[2].id>>
    /\ elements[2].triggers = <<elements[1].id>>
TwoCycleFromA ==
    /\ TwoCycle
    /\ flow_params.start_element_id = elements[1].id
    /\ flow_params.max_depth = DefaultMaxDepth
    /\ flow_params.max_elements = DefaultMaxElements

\* C4: a trace visits at most max_elements distinct ids and no id more than
\* max_depth trigger hops from the start it was reached from; from A in
\* the cycle A -> B -> A with max_depth 5 and max_elements 100 it visits
\* exactly A and B.
FlowBounded ==
    /\ Cardinality(VisitedIds) <= flow_params.max_elements
    /\ \A k \in 1..Len(visits) :
        visits[k].id \in Within(visits[k].root, flow_params.max_depth)
    /\ (pc = "done" /\ TwoCycleFromA) =>
        VisitedIds = {elements[1].id, elements[2].id}

\* C4 witness: the example's call has ended
FlowBoundedWitness == pc = "done" /\ TwoCycleFromA /\ Len(visits) = 2

\* C5: under one start no id is visited twice and no element is emitted
\* twice, by whatever path it is reached again.
EmittedOncePerStart ==
    /\ \A i, j \in 1..Len(visits) :
        (i < j /\ visits[i].root = visits[j].root) => visits[i].id # visits[j].id
    /\ \A i, j \in EmittedAt :
        (i < j /\ HeaderOf(i) = HeaderOf(j)) => lines[i].id # lines[j].id

\* C5 witness: A triggers B and C, B triggers C; the trace from A showed all
\* three, C under B, and met C again as A's second trigger
EmittedOnceWitness ==
    /\ pc = "done" /\ Directed /\ Len(elements) = 3
    /\ flow_params.start_element_id = elements[1].id
    /\ elements[1].triggers = <<elements[2].id, elements[3].id>>
    /\ elements[2].triggers = <<elements[3].id>>
    /\ Len(Emitted) = 3
    /\ \E k \in EmittedAt : lines[k].id = elements[3].id /\ lines[k].indent = 2

\* C6: without a start id the traces start from the elements with an empty
\* triggered_by, in collection order; each has a visited set of its own (the
\* ids visited under that root), and element_count counts the visits of all
\* of them together.
RootsMode ==
    (~Directed /\ pc \notin {"start", "idle"}) =>
        /\ LET expected == SelectSeq(elements, LAMBDA e : e.triggered_by = <<>>)
               started == Len(Headers)
           IN  /\ started + Len(roots) = Len(expected)
               /\ \A k \in 1..Len(expected) :
                    expected[k].id = IF k <= started THEN Headers[k].id
                                     ELSE roots[k - started]
        /\ stack # <<>> =>
            visited = {visits[k].id : k \in {j \in 1..Len(visits) :
                                                visits[j].root = CurrentRoot}}
        /\ element_count = Len(visits)

\* C6 witness: one element was emitted under two roots
RootsModeWitness ==
    /\ ~Directed /\ pc = "done"
    /\ \E i, j \in EmittedAt :
        i < j /\ lines[i].id = lines[j].id /\ HeaderOf(i) # HeaderOf(j)
    /\ element_count > Cardinality(VisitedIds)

\* C7: element_count never exceeds max_elements; once it has reached it no
\* further id is visited and no further element emitted in the call, and
\* the response carries a truncation marker.
BudgetStopsTrace ==
    /\ [](element_count <= flow_params.max_elements)
    /\ []((pc = "done" /\ result.ok /\ element_count >= flow_params.max_elements)
            => HasMarker)
    /\ [][element_count >= flow_params.max_elements
            => (visits' = visits /\ Emitted' = Emitted)]_vars

\* C7 witness: the budget ran out with a sibling branch pending (the marker
\* inside the trace) and with a root not yet started (the marker between
\* the roots)
BudgetStopsWitness ==
    /\ pc = "done" /\ element_count = flow_params.max_elements
    /\ roots # <<>>
    /\ \E k \in 1..Len(lines) : lines[k].kind = "limit" /\ lines[k].indent = 1
    /\ \E k \in 1..Len(lines) : lines[k].kind = "limit" /\ lines[k].indent = 0
    /\ lines[Len(lines)].kind = "display_limit"

(***************************************************************************)
(* Properties of paginate_list                                             *)
(***************************************************************************)
\* ceil(n / size): the least k with k * size >= n
Ceil(n, size) == CHOOSE k \in 0..n : k * size >= n /\ \A j \in 0..(k - 1) : j * size < n

\* C8: the slices of pages 1, 2, ..., ceil(N/P), concatenated in order, are
\* the list: every item once, in the original order.
PagesConcatenate ==
    pages_read = Ceil(Len(items), page_size) => collected = items

\* C8 witness: a reader has read all the pages of a list of several pages
\* whose last page is not full
PagesConcatenateWitness ==
    /\ pages_read = Ceil(Len(items), page_size)
    /\ pages_read >= 2
    /\ Len(items) % page_size # 0
    /\ \E i, j \in 1..Len(items) : items[i] # items[j]

\* C9: a call for page r of a list of length N with page size P reports
\* total_pages = ceil(N/P) (0 when N = 0), the page r clamped into
\* [1, max(total_pages, 1)], the items at positions (page-1)*P+1 .. page*P of
\* the list, has_next = (page < total_pages) and has_prev = (page > 1).
PageReport ==
    page_out # <<>> =>
        LET r == page_out.requested
            info == page_out.out.pagination
            n == Len(items)
            pages == IF n = 0 THEN 0 ELSE Ceil(n, page_size)
            top == IF pages > 1 THEN pages ELSE 1
            page == IF r < 1 THEN 1 ELSE IF r > top THEN top ELSE r
            at == {i \in 1..n : (page - 1) * page_size < i /\ i <= page * page_size}
        IN  /\ info.total_items = n
            /\ info.page_size = page_size
            /\ info.total_pages = pages
            /\ info.page = page
            /\ Len(page_out.out.items) = Cardinality(at)
            /\ \A i \in at :
                page_out.out.items[i - (page - 1) * page_size] = items[i]
            /\ info.has_next = (page < pages)
            /\ info.has_prev = (page > 1)

\* C9 witness: a call for a page beyond the last of a list of several pages,
\* the last one not full
PageReportWitness ==
    /\ page_out # <<>>
    /\ page_out.requested > page_out.out.pagination.total_pages
    /\ page_out.out.pagination.total_pages >= 2
    /\ Len(items) % page_size # 0

(***************************************************************************)
(* Properties of get_timeline                                              *)
(***************************************************************************)
\* the instant a stored timestamp names
ParseTimestamp(str) ==
    LET digit(c) == CHOOSE d \in 0..(Len(Digits) - 1) : Digits[d + 1] = c
    IN  IF Len(str) = 2 THEN Instant(digit(str[1]), 0)
        ELSE Instant(digit(str[1]), digit(str[3]))

\* C10: the list get_timeline paginates holds exactly the elements that pass
\* the type filter and the context filter of the request (a filter left out
\* or empty passes everything), in ascending position and, at equal
\* position, in ascending creation time.
TimelineOrdered ==
    query # <<>> =>
        LET passes(e) ==
                /\ Truthy(query.element_type) => e.type = query.element_type
                /\ Truthy(query.bounded_context_id) =>
                        e.bounded_context_id = query.bounded_context_id
            expected == {elements[k].id : k \in {j \in 1..Len(elements) :
                                                    passes(elements[j])}}
        IN  /\ {items[k].id : k \in 1..Len(items)} = expected
            /\ Len(items) = Cardinality(expected)
            /\ \A k \in 1..Len(items) : items[k] \in Range(elements)
            /\ \A i, j \in 1..Len(items) :
                i < j =>
                    /\ items[i].position <= items[j].position
                    /\ items[i].position = items[j].position =>
                        NotAfter(ParseTimestamp(items[i].created_at),
                                 ParseTimestamp(items[j].created_at))

(***************************************************************************)
(* Properties of get_statistics                                            *)
(***************************************************************************)
\* the statistics of a JSON response
JsonStats == result.op = "get_statistics" /\ result.ok /\ result.format = "json"

\* the sum of f over the set S
RECURSIVE Sum(_, _)
Sum(f, S) ==
    IF S = {} THEN 0
    ELSE LET x == CHOOSE y \in S : TRUE IN f[x] + Sum(f, S \ {x})

\* C19: by_type has the 8 element types as its keys, whatever the workshop
\* holds; each value is the number of elements of the type, and the values
\* add up to the number of elements.
ByTypeComplete ==
    JsonStats =>
        LET by_type == result.stats.by_type
        IN  /\ DOMAIN by_type = {"event", "command", "actor", "aggregate", "policy",
                                 "read_model", "external_system", "hotspot"}
            /\ \A t \in DOMAIN by_type :
                /\ by_type[t] >= 0
                /\ by_type[t] = Cardinality({i \in 1..Len(elements) :
                                                elements[i].type = t})
            /\ Sum(by_type, DOMAIN by_type) = Len(elements)
            /\ result.stats.totals.elements = Len(elements)

\* C19 witness: statistics of a workshop without elements
ByTypeWitness == JsonStats /\ elements = <<>> /\ bounded_contexts # <<>>

\* C20 as stated: the value by_context has under a name is the sum of the
\* element_ids lengths of all the contexts with that name.
ByContextMerges ==
    JsonStats =>
        LET by_context == result.stats.by_context
            names == {bounded_contexts[k].name : k \in 1..Len(bounded_contexts)}
            size == [k \in 1..Len(bounded_contexts) |->
                        Len(bounded_contexts[k].element_ids)]
        IN  /\ DOMAIN by_context = names
            /\ \A n \in names :
                by_context[n] = Sum(size, {k \in 1..Len(bounded_contexts) :
                                              bounded_contexts[k].name = n})

\* C20, amended: contexts that share a name share one key of by_context, and
\* the value under a name is the element_ids length of the last context
\* with that name in collection order.
ByContextLastWins ==
    JsonStats =>
        LET by_context == result.stats.by_context
            named(n) == {k \in 1..Len(bounded_contexts) : bounded_contexts[k].name = n}
            last(n) == CHOOSE k \in named(n) : \A j \in named(n) : j <= k
        IN  /\ DOMAIN by_context =
                {bounded_contexts[k].name : k \in 1..Len(bounded_contexts)}
            /\ \A n \in DOMAIN by_context :
                by_context[n] = Len(bounded_contexts[last(n)].element_ids)

\* C20 witness: statistics of a workshop with two contexts of one name, the
\* first with a member, the second without
ByContextWitness ==
    /\ JsonStats
    /\ Len(bounded_contexts) = 2
    /\ bounded_contexts[1].name = bounded_contexts[2].name
    /\ bounded_contexts[1].element_ids # <<>>
    /\ bounded_contexts[2].element_ids = <<>>

(***************************************************************************)
(* Properties of the requests                                              *)
(***************************************************************************)
\* a step in which a request is answered: a handler has run, or
\* visualize_flow has reached its end
Answered ==
    \/ pc = "idle" /\ pc' = "idle" /\ now' = now
    \/ pc # "done" /\ pc' = "done"

\* the request answered names something the stored data does not have: the
\* workshop, the element to update or to delete, the context to assign to,
\* the element to start the trace at
NamesAbsent ==
    LET op == request'.op
        params == request'.params
    IN  /\ op # "create_workshop"
        /\ \/ ~Exists(request'.workshop_id)
           \/ op = "update_element" /\ params.element_id \notin ElementIds
           \/ op = "delete_element" /\ params \notin ElementIds
           \/ op = "assign_to_context" /\ params.context_id \notin ContextIds
           \/ /\ op = "visualize_flow"
              /\ Truthy(params.start_element_id)
              /\ params.start_element_id \notin ElementIds

\* C13: a request that names an absent workshop, element, context or start
\* element is answered with an error result, and a request answered with an
\* error has saved nothing: elements, contexts and metadata.updated_at are
\* as they were.
NotFoundIsNoOp ==
    [][Answered =>
        /\ NamesAbsent => ~result'.ok
        /\ ~result'.ok =>
            /\ UNCHANGED <<elements, bounded_contexts, updated_at, next_id>>
            /\ writes' = 0]_vars

\* C13 witness: a later update of an element that is not there, in a
\* workshop that has an element in a context, answered with an error
NotFoundWitness ==
    /\ request.op = "update_element"
    /\ request.workshop_id = WorkshopId
    /\ ~result.ok
    /\ elements # <<>>
    /\ bounded_contexts # <<>> /\ bounded_contexts[1].element_ids # <<>>
    /\ now # Epoch

(***************************************************************************)
(* Properties of update_element and add_element                            *)
(***************************************************************************)
\* the element_ids of the context with the given id, before and after a step
IdsOf(context_id) ==
    bounded_contexts[IndexOfId(bounded_contexts, context_id)].element_ids
IdsAfter(context_id) ==
    bounded_contexts'[IndexOfId(bounded_contexts', context_id)].element_ids

\* C14: update_element with a bounded_context_id sets the element's
\* bounded_context_id to it, or to none for the sentinel; afterwards the
\* element id is once in the element_ids of the new context, if that
\* exists, and not in those of the old context, if that exists and is
\* another one; the element_ids of every other context are unchanged.
UpdateMovesContext ==
    [][(Succeeds("update_element")
        /\ request'.params.bounded_context_id # None) =>
        LET p == request'.params
            i == IndexOfId(elements, p.element_id)
            old == elements[i].bounded_context_id
            new == IF p.bounded_context_id = NullSentinel THEN None
                   ELSE p.bounded_context_id
        IN  /\ elements'[i].id = p.element_id
            /\ elements'[i].bounded_context_id = new
            /\ ContextIds = {bounded_contexts'[k].id :
                                k \in 1..Len(bounded_contexts')}
            /\ \A c \in ContextIds :
                IF c = new THEN Count(IdsAfter(c), p.element_id) = 1
                ELSE IF c = old THEN ~In(p.element_id, IdsAfter(c))
                ELSE IdsAfter(c) = IdsOf(c)]_vars

\* C14 witness: an element moved by update_element into the second context,
\* the first context left without members
UpdateMovesWitness ==
    /\ request # <<>>
    /\ request.op = "update_element"
    /\ result.ok
    /\ Len(bounded_contexts) = 2
    /\ request.params.bounded_context_id = bounded_contexts[2].id
    /\ bounded_contexts[2].element_ids = <<request.params.element_id>>
    /\ bounded_contexts[1].element_ids = <<>>
    /\ Len(elements) = 2

\* C15: add_element stores the new element with the bounded_context_id of
\* the request, whether a context has that id or not; the new id is appended
\* to the element_ids of the context with that id, and the element_ids of
\* every other context are unchanged.
AddAppendsToContext ==
    [][Succeeds("add_element") =>
        LET p == request'.params
            e == elements'[Len(elements')]
        IN  /\ elements' = Append(elements, e)
            /\ e.id = result'.id
            /\ e.id \notin ElementIds
            /\ e.bounded_context_id = p.bounded_context_id
            /\ ContextIds = {bounded_contexts'[k].id :
                                k \in 1..Len(bounded_contexts')}
            /\ \A c \in ContextIds :
                IdsAfter(c) = IF c = p.bounded_context_id
                              THEN Append(IdsOf(c), e.id)
                              ELSE IdsOf(c)]_vars

\* C15 witness: an element added with a context id that names no context,
\* to a workshop whose contexts have members
AddDanglingWitness ==
    /\ request # <<>>
    /\ request.op = "add_element"
    /\ result.ok
    /\ request.params.bounded_context_id = Ghost
    /\ elements[Len(elements)].bounded_context_id = Ghost
    /\ bounded_contexts # <<>>
    /\ \A k \in 1..Len(bounded_contexts) : bounded_contexts[k].element_ids # <<>>

\* the fields a patch can set
PatchFields == {"name", "position", "notes", "triggers", "triggered_by",
                "bounded_context_id"}

\* the request answered supplies the field
Supplied(f) ==
    LET p == request'.params
    IN  IF f \in {"position", "triggers", "triggered_by"}
        THEN p[f] # <<>> ELSE p[f] # None

\* the element the request answered names has another value of the field
\* than before
Changed(f) ==
    LET i == IndexOfId(elements, request'.params.element_id)
    IN  elements'[i][f] # elements[i][f]

\* C16 as stated: a successful update_element lists a field if and only if
\* the value of the field after the update differs from the one before.
FieldsActuallyChanged ==
    [][Succeeds("update_element") =>
        \A f \in PatchFields : In(f, result'.updated_fields) <=> Changed(f)]_vars

\* C16, amended: a successful update_element lists a field if and only if
\* the request supplies it, once, whether its value differs from the one
\* before or not; a field whose value differs is listed.
FieldsSupplied ==
    [][Succeeds("update_element") =>
        \A f \in PatchFields :
            /\ Count(result'.updated_fields, f) = (IF Supplied(f) THEN 1 ELSE 0)
            /\ Changed(f) => In(f, result'.updated_fields)]_vars

\* C16 witness: an update that sets the position an element has and is
\* answered with that field
FieldsSuppliedWitness ==
    /\ request # <<>>
    /\ request.op = "update_element"
    /\ result.ok
    /\ request.params.position = <<0>>
    /\ request.params.bounded_context_id = None
    /\ result.updated_fields = <<"position">>
    /\ elements[1].position = 0
    /\ elements[1].created_at = elements[1].updated_at

(***************************************************************************)
(* Saves per request                                                       *)
(***************************************************************************)
Mutations == {"create_workshop", "add_element", "update_element",
              "delete_element", "create_bounded_context", "assign_to_context"}
Reads == {"search_elements", "get_timeline", "get_context_overview",
          "get_statistics", "visualize_flow", "export_workshop",
          "load_workshop"}

\* C17: a mutation that succeeds saves the snapshot once, with the time of
\* the save in metadata.updated_at; a read saves nothing, and elements,
\* contexts and metadata.updated_at are the same before and after it, at
\* every step of visualize_flow too.
OneSavePerMutation ==
    [][/\ Answered =>
            /\ request'.op \in Mutations \cup Reads
            /\ (request'.op \in Mutations /\ result'.ok) =>
                    writes' = 1 /\ updated_at' = get_timestamp(now)
            /\ request'.op \in Reads =>
                    /\ writes' = 0
                    /\ UNCHANGED <<elements, bounded_contexts, updated_at>>
       /\ (pc # "idle" \/ pc' # "idle") =>
            UNCHANGED <<elements, bounded_contexts, updated_at>>]_vars

\* C17 witness: a workshop with an element in a context, saved last before
\* the clock went on, and exported after
ReadSavesNothingWitness ==
    /\ request.op = "export_workshop"
    /\ result.ok
    /\ writes = 0
    /\ elements # <<>>
    /\ bounded_contexts # <<>> /\ bounded_contexts[1].element_ids # <<>>
    /\ now # Epoch
    /\ updated_at = get_timestamp(Epoch)

(***************************************************************************)
(* Properties of two processes on one storage directory                    *)
(***************************************************************************)
\* C18: when two processes have both loaded the workshop before either
\* saved, and both have saved, both were answered with success, and the
\* file holds a workshop, the one the later of the two made of the snapshot
\* both loaded: the change of the earlier one is not in it.
LastWriterWins ==
    \A c, d \in Callers :
        (/\ callers[c].pc = "saved" /\ callers[d].pc = "saved"
         /\ callers[c].saves_before = 0 /\ callers[d].saves_before = 0
         /\ callers[c].save_no = 1 /\ callers[d].save_no = 2) =>
            /\ callers[c].result.ok /\ callers[d].result.ok
            /\ result = callers[d].result
            /\ callers[c].workshop = callers[d].workshop
            /\ Readable
            /\ Stored = Apply(callers[d].request, callers[c].workshop,
                              callers[d].id, get_timestamp(now))
            /\ callers[c].id # None => callers[c].id \notin ElementIds \cup ContextIds

\* both processes loaded, then added an element each and saved; the stored
\* workshop has the second of the new elements and not the first
LostUpdateWitness ==
    /\ Readable
    /\ callers["c1"].pc = "saved" /\ callers["c2"].pc = "saved"
    /\ callers["c1"].saves_before = 0 /\ callers["c2"].saves_before = 0
    /\ callers["c1"].save_no = 1
    /\ callers["c1"].request.op = "add_element"
    /\ callers["c2"].request.op = "add_element"
    /\ ElementIds = {generate_id(1), callers["c2"].id}
    /\ callers["c1"].id \notin ElementIds

\* both processes loaded and added an element each; their writes overlapped
\* and left a file that is no workshop
TornFileWitness ==
    /\ callers["c1"].pc = "saved" /\ callers["c2"].pc = "saved"
    /\ callers["c1"].saves_before = 0 /\ callers["c2"].saves_before = 0
    /\ callers["c1"].result.ok /\ callers["c2"].result.ok
    /\ ~Readable

\* a process loaded while another one had the file open for writing
LoadRaisedWitness ==
    \E c, d \in Callers : callers[c].pc = "raised" /\ callers[d].pc = "writing"

\* the statistics of a response in either format
AnyStats == result.op = "get_statistics" /\ result.ok

\* the elements, by their place in the collection
Places == 1..Len(elements)

\* the lengths of the triggers lists, added up
RECURSIVE TriggerLinks(_)
TriggerLinks(els) ==
    IF els = <<>> THEN 0 ELSE Len(Head(els).triggers) + TriggerLinks(Tail(els))

\* the relationship counters of the report, and the two coverage counters
\* adding up to the number of elements
CountersRight ==
    LET r == result.stats.relationships
        c == result.stats.coverage
    IN  /\ r.elements_with_triggers
              = Cardinality({i \in Places : elements[i].triggers # <<>>})
        /\ r.elements_with_triggered_by
              = Cardinality({i \in Places : elements[i].triggered_by # <<>>})
        /\ r.total_trigger_links = TriggerLinks(elements)
        /\ c.elements_in_contexts + c.elements_without_context = Len(elements)

\* C21 as stated: the counters are right, and elements_in_contexts is the
\* number of elements whose bounded_context_id is not null.
CoverageCountsNonNull ==
    AnyStats =>
        /\ CountersRight
        /\ result.stats.coverage.elements_in_contexts
              = Cardinality({i \in Places : elements[i].bounded_context_id # None})

\* C21, amended: the counters are right, and elements_in_contexts is the
\* number of elements whose bounded_context_id is neither null nor the
\* empty string; the Markdown report has its percentage line exactly when
\* an element is without context.
CoverageCountsNonEmpty ==
    AnyStats =>
        /\ CountersRight
        /\ result.stats.coverage.elements_in_contexts
              = Cardinality({i \in Places :
                    elements[i].bounded_context_id \notin {None, EmptyStr}})
        /\ result.format = "markdown" =>
              (result.stats.coverage_line # <<>>
                  <=> result.stats.coverage.elements_without_context > 0)

\* C21 witness: statistics of a workshop with an element whose
\* bounded_context_id is the empty string and one that triggers two
CoverageWitness ==
    /\ AnyStats
    /\ \E i \in 1..Len(elements) : elements[i].bounded_context_id = EmptyStr
    /\ \E i \in 1..Len(elements) : Len(elements[i].triggers) = 2

(***************************************************************************)
(* Properties of export_workshop and import_workshop                       *)
(***************************************************************************)
\* the ids of the workshops stored
WorkshopIds == {WorkshopId} \cup {imports[k].metadata.id : k \in 1..Len(imports)}

\* C22: an export leaves the stored workshop as it is and carries its
\* elements and contexts; an import of the payload of the export just made
\* succeeds and saves a further workshop with those elements and contexts,
\* field by field and in their order, under an id no workshop has and with
\* created_at and updated_at of the time of the import; the workshop
\* exported is stored as before.
ExportImportRoundTrip ==
    [][request' # <<>> =>
       /\ (request'.op = "export_workshop" /\ result'.ok /\ now' = now) =>
            /\ result'.data.elements = elements
            /\ result'.data.bounded_contexts = bounded_contexts
            /\ UNCHANGED <<elements, bounded_contexts, updated_at, created_at,
                           imports>>
       /\ (/\ request'.op = "import_workshop"
           /\ result.op = "export_workshop" /\ result.ok
           /\ request'.params = result.data) =>
            /\ result'.ok
            /\ Len(imports') = Len(imports) + 1
            /\ SubSeq(imports', 1, Len(imports)) = imports
            /\ LET new == imports'[Len(imports')]
               IN  /\ new.elements = elements
                   /\ new.bounded_contexts = bounded_contexts
                   /\ new.metadata.id = result'.id
                   /\ new.metadata.id \notin WorkshopIds
                   /\ new.metadata.created_at = get_timestamp(now)
                   /\ new.metadata.updated_at = get_timestamp(now)
            /\ UNCHANGED <<elements, bounded_contexts, updated_at, created_at>>]_vars

\* C22 witness: a workshop with an element in a context, created before the
\* clock went on, exported with its metadata and imported after
RoundTripWitness ==
    /\ request # <<>>
    /\ request.op = "import_workshop"
    /\ result.ok
    /\ "metadata" \in DOMAIN request.params
    /\ "created_at" \in DOMAIN request.params.metadata
    /\ imports # <<>>
    /\ imports[Len(imports)].elements = elements
    /\ imports[Len(imports)].bounded_contexts = bounded_contexts
    /\ elements # <<>>
    /\ bounded_contexts # <<>> /\ bounded_contexts[1].element_ids # <<>>
    /\ imports[Len(imports)].metadata.created_at # created_at

(***************************************************************************)
(* Requests repeated                                                       *)
(***************************************************************************)
\* the elements without their timestamps
Untimed(els) ==
    [k \in 1..Len(els) |->
        [f \in DOMAIN els[k] \ {"created_at", "updated_at"} |-> els[k][f]]]

\* C23: update_element, delete_element or assign_to_context sent again with
\* the same arguments right after it was answered leaves the elements,
\* timestamps aside, and the contexts with their element_ids in their order
\* as the first call left them.
RepeatChangesNothing ==
    [][(/\ request # <<>>
        /\ request' = request
        /\ request.op \in {"update_element", "delete_element",
                           "assign_to_context"}) =>
            /\ Untimed(elements') = Untimed(elements)
            /\ bounded_contexts' = bounded_contexts]_vars

(***************************************************************************)
(* Bounded contexts in the course of time                                  *)
(***************************************************************************)
\* C24: a context that is stored is stored after every request, at its
\* place and with the id, name, description and color it has; a request
\* changes at most its element_ids.
ContextsPersist ==
    [][/\ Len(bounded_contexts') >= Len(bounded_contexts)
       /\ \A k \in 1..Len(bounded_contexts) :
            /\ bounded_contexts'[k].id = bounded_contexts[k].id
            /\ bounded_contexts'[k].name = bounded_contexts[k].name
            /\ bounded_contexts'[k].description = bounded_contexts[k].description
            /\ bounded_contexts'[k].color = bounded_contexts[k].color]_vars

\* C24 witness: two contexts of one name and two colours, left without
\* members by the deletion of an element
ContextsPersistWitness ==
    /\ request # <<>>
    /\ request.op = "delete_element"
    /\ result.ok
    /\ Len(bounded_contexts) = 2
    /\ bounded_contexts[1].name = bounded_contexts[2].name
    /\ bounded_contexts[1].color # bounded_contexts[2].color
    /\ \A k \in 1..2 : bounded_contexts[k].element_ids = <<>>
    /\ elements # <<>>

(***************************************************************************)
(* Search                                                                  *)
(***************************************************************************)
\* two characters that differ at most in case
SameLetter(c, d) == c = d \/ {c, d} = {"n", "N"}

\* the query occurs in the text at some place, whatever the case
Occurs(q, text) ==
    \E at \in 0..(Len(text) - Len(q)) :
        \A i \in 1..Len(q) : SameLetter(q[i], text[at + i])

\* the element is one a search with these parameters asks for; an empty
\* bounded_context_id is no filter
AskedFor(e, p) ==
    /\ Occurs(Chars(p.query), Chars(e.name))
          \/ Occurs(Chars(p.query), Chars(e.notes))
    /\ p.element_type # None => e.type = p.element_type
    /\ p.bounded_context_id \notin {None, EmptyStr}
          => e.bounded_context_id = p.bounded_context_id

\* the places of the elements asked for, and those before a place
PlacesAskedFor(p) == {i \in 1..Len(elements) : AskedFor(elements[i], p)}
AskedBefore(p, i) == Cardinality({j \in PlacesAskedFor(p) : j < i})

\* C25: a search counts exactly the elements asked for, and its page holds
\* them in the order of the collection: the k-th element asked for is the
\* match at place k - (page - 1) * page_size, and the page holds nothing else.
SearchReturnsMatches ==
    (request # <<>> /\ request.op = "search_elements" /\ result.ok) =>
        LET p == request.params
            first == (result.pagination.page - 1) * p.page_size
            asked == PlacesAskedFor(p)
        IN  /\ result.pagination.total_items = Cardinality(asked)
            /\ Len(result.matches)
                  = Max(0, Min(p.page_size, Cardinality(asked) - first))
            /\ \A i \in asked :
                  LET k == AskedBefore(p, i) + 1 - first
                  IN  k \in 1..Len(result.matches)
                         => result.matches[k] = elements[i]

\* C25 witness: a search in upper case, with both filters, that returns the
\* second element for its notes in lower case and not the first, which has
\* the name but not the type
SearchWitness ==
    /\ request # <<>>
    /\ request.op = "search_elements"
    /\ result.ok
    /\ request.params.query = "N"
    /\ request.params.element_type = "event"
    /\ request.params.bounded_context_id = Ghost
    /\ Len(elements) = 2
    /\ elements[1].type = "command"
    /\ elements[1].name = "N"
    /\ elements[2].name = "x"
    /\ result.matches = <<elements[2]>>

(***************************************************************************)
(* What update_element leaves alone                                        *)
(***************************************************************************)
\* C26: a successful update_element keeps the number and order of the
\* elements, leaves every element but the target as it was, and changes in
\* the target only updated_at and the fields the patch supplies: never id,
\* type, created_at or created_by, and never another element's triggers or
\* triggered_by.
UpdateChangesPatchOnly ==
    [][Succeeds("update_element") =>
        LET i == IndexOfId(elements, request'.params.element_id)
        IN  /\ Len(elements') = Len(elements)
            /\ \A j \in 1..Len(elements) : j # i => elements'[j] = elements[j]
            /\ \A f \in DOMAIN elements[i] \ {"updated_at"} :
                  (f \notin PatchFields \/ ~Supplied(f))
                      => elements'[i][f] = elements[i][f]]_vars

\* C26 witness: the first element was given the second as its only trigger
\* by an update, and the second does not list it in triggered_by
UpdateFrameWitness ==
    /\ request # <<>>
    /\ request.op = "update_element"
    /\ result.ok
    /\ Len(elements) = 2
    /\ request.params.element_id = elements[1].id
    /\ request.params.triggers = <<(<<elements[2].id>>)>>
    /\ elements[1].triggers = <<elements[2].id>>
    /\ elements[2].triggered_by = <<>>

(***************************************************************************)
(* The members of a context                                                *)
(***************************************************************************)
\* C27: in every state the five mutations reach from the empty workshop, no
\* context lists an id twice, and every id a context lists is the id of an
\* element of the workshop.
ContextMembersSound ==
    \A k \in 1..Len(bounded_contexts) :
        LET ids == bounded_contexts[k].element_ids
        IN  /\ \A a, b \in 1..Len(ids) : a # b => ids[a] # ids[b]
            /\ \A a \in 1..Len(ids) :
                  \E i \in 1..Len(elements) : elements[i].id = ids[a]

\* C27 witness: an element was deleted; the one that is left was assigned
\* from one context to the other and both list it
ContextMembersWitness ==
    /\ request # <<>>
    /\ request.op = "delete_element"
    /\ result.ok
    /\ Len(elements) = 1
    /\ Len(bounded_contexts) = 2
    /\ \A k \in 1..2 : bounded_contexts[k].element_ids = <<elements[1].id>>

(***************************************************************************)
(* What a flow trace shows, and when it says that it was cut               *)
(***************************************************************************)
\* the id names an element
IsElement(id) == IndexOfId(elements, id) # 0

\* a directed trace has ended and its counter stayed below max_elements
DirectedWithinBudget ==
    /\ pc = "done"
    /\ result.ok
    /\ Directed
    /\ element_count < flow_params.max_elements

\* C28 as stated: a directed trace that stays below max_elements emits
\* every element fewer than max_depth trigger hops from the start.
TraceShowsAllWithinDepth ==
    DirectedWithinBudget =>
        \A x \in Within(flow_params.start_element_id, flow_params.max_depth - 1) :
            IsElement(x) => x \in EmittedIds

\* C28, amended: a directed trace that stays below max_elements emits the
\* start and every element triggered by an id it visited at a depth below
\* max_depth - 1.
TraceShowsTriggersOfVisited ==
    DirectedWithinBudget =>
        /\ flow_params.start_element_id \in EmittedIds
        /\ \A k \in 1..Len(visits) :
              visits[k].depth + 1 < flow_params.max_depth =>
                  \A x \in Triggered(visits[k].id) :
                      IsElement(x) => x \in EmittedIds

\* C28 witness: A triggers B and D, B triggers D, D triggers E; the trace
\* from A to depth 3 visited D under B at depth 2, left E out there, and did
\* not descend into D again as A's second trigger: E, two hops from A, is
\* not shown
TraceSkipsWitness ==
    /\ DirectedWithinBudget
    /\ Len(elements) = 4
    /\ elements[1].triggers = <<elements[2].id, elements[3].id>>
    /\ elements[2].triggers = <<elements[3].id>>
    /\ elements[3].triggers = <<elements[4].id>>
    /\ flow_params.max_depth = 3
    /\ EmittedIds = {elements[1].id, elements[2].id, elements[3].id}

\* the ids the traces of the call start from
Starts == IF Directed THEN {flow_params.start_element_id}
          ELSE Range(Roots(elements))

\* the ids of the elements emitted under the header of start s
EmittedUnder(s) ==
    {lines[k].id : k \in {j \in EmittedAt : lines[HeaderOf(j)].id = s}}

\* under every start, every element fewer than max_depth hops from it was
\* emitted: the budget cut nothing off
NothingCut ==
    \A s \in Starts :
        \A x \in Within(s, flow_params.max_depth - 1) :
            IsElement(x) => x \in EmittedUnder(s)

\* C29 as stated: a trace that emitted every element within max_depth of
\* its starts carries no truncation marker, also when the number of visits
\* equals max_elements.
MarkerOnlyWhenCut ==
    (pc = "done" /\ result.ok /\ NothingCut) => ~HasMarker

\* C29, amended: a truncation marker appears only when element_count has
\* reached max_elements; a trace that ends with element_count equal to
\* max_elements carries one although it emitted every element within
\* max_depth of its starts.
MarkerOnlyAtBudget ==
    /\ HasMarker => element_count >= flow_params.max_elements
    /\ (/\ pc = "done"
        /\ result.ok
        /\ NothingCut
        /\ element_count = flow_params.max_elements) => HasMarker

\* C29 witness: A triggers B; the trace from A with max_elements 2 emitted
\* both and ends with the display-limit marker
MarkerAtBudgetWitness ==
    /\ pc = "done"
    /\ result.ok
    /\ Directed
    /\ Len(elements) = 2
    /\ flow_params.start_element_id = elements[1].id
    /\ elements[1].triggers = <<elements[2].id>>
    /\ elements[2].triggers = <<>>
    /\ flow_params.max_elements = 2
    /\ EmittedIds = {elements[1].id, elements[2].id}
    /\ lines[Len(lines)].kind = "display_limit"

(***************************************************************************)
(* Automatic positions within a type                                       *)
(***************************************************************************)
\* no two elements of one type have the same position
LanePositionsDiffer ==
    \A i, j \in 1..Len(elements) :
        (i # j /\ elements[i].type = elements[j].type)
            => elements[i].position # elements[j].position

\* C30 as stated: when every element is added without a position and no
\* position is updated, then after any sequence of add_element and
\* delete_element no two elements of one type have the same position.
LanePositionsUnique == LanePositionsDiffer

\* C30, amended: the same, as long as no element has been deleted, that is,
\* while every id issued names a stored element.
LanePositionsUniqueUntilDelete ==
    next_id = Len(elements) => LanePositionsDiffer

\* C30 witness: two events and a command were added, nothing was deleted
LaneWitness ==
    /\ request # <<>>
    /\ request.op = "add_element"
    /\ result.ok
    /\ next_id = 3
    /\ Len(elements) = 3
    /\ elements[1].type = "event" /\ elements[1].position = 0
    /\ elements[2].type = "command" /\ elements[2].position = 0
    /\ elements[3].type = "event" /\ elements[3].position = 1

====
